---- MODULE Spec2Model ----
(***************************************************************************)
(* backtesthub: the broker's order book and period accounting              *)
(* (broker.py, order.py), the daily loop of Backtest.run (backtest.py)     *)
(* and the cursor of Line / Data (utils/bases.py).                         *)
(*                                                                         *)
(* Money is held exactly, in units of 1/(Den*Den) of the home currency:    *)
(* rates (slippage, percentage commission, carry) are numerators over Den, *)
(* an execution price is held in units of 1/Den.                           *)
(***************************************************************************)
EXTENDS Integers, Sequences, FiniteSets, TLC

VARIABLES broker, data, cfg, pc, steps, sync, rd, pipe

vars == <<broker, data, cfg, pc, steps, sync, rd, pipe>>

(* ------------------------------ bounds -------------------------------- *)

\* number of calendar dates after the warm-up offset
NDates == 3
\* prices and limits range over 1..MaxPrice
MaxPrice == 2
\* order sizes range over -MaxSize..MaxSize
MaxSize == 1
\* Order objects created in one run
MaxOrders == 2
\* denominator of the rates
Den == 10
\* the FX close ranges over 1..MaxFx
MaxFx == 2
\* commission values range over {0, MaxComm}, numerators over Den
MaxComm == 1
\* the multiplier of the future-like instrument
MultB == 2
\* calls made in the specification of the Broker alone
MaxCalls == 5

(* ------------------- configuration (utils/config.py) ------------------- *)

\* DEF_BUFFER of the modelled runs: the warm-up offset of every cursor
DEFAULT_BUFFER == 1
\* DEF_CASH of the modelled runs, in home currency
DEFAULT_CASH == 4
\* DEF_CRATE of the modelled runs, numerator over Den
DEFAULT_CRATE == 1
\* DEF_SLIP of the modelled runs, numerator over Den
DEFAULT_SLIPPAGE == 1
\* DEF_MAX_LOSS: the floor of the cumulative return, in percent
DEFAULT_MAX_LOSS == 0 - 99
DEFAULT_CURRENCY == "BRL"
STATUS == [WAIT |-> "WAITING", EXEC |-> "EXECUTED", CANC |-> "CANCELLED"]
COMMTYPE == [PERC |-> "PERC", ABS |-> "ABS"]

Unit == Den * Den
\* len(index): the warm-up entries, the start date and the dates after it
Length == DEFAULT_BUFFER + NDates + 1
Prices == 1..MaxPrice
\* a limit of 0 (or None) is "no limit" to Order.exec_price
Limits == 0..MaxPrice
Sizes == (0 - MaxSize)..MaxSize
None == "None"
\* the None of an Optional number (a multiplier, a limit) and of a date
NoNumber == 0
NoDate == 0 - 1

Abs(x) == IF x < 0 THEN 0 - x ELSE x

(* ----------------------------- instruments ----------------------------- *)

\* "A" is added with add_asset, "B" with add_hedge
Tickers == {"A", "B"}
TickerOrder == <<"A", "B">>

Max(x, y) == IF x > y THEN x ELSE y
Min(x, y) == IF x < y THEN x ELSE y

\* the rows of an instrument's data: the high and the low of a date are
\* the larger and the smaller of its open and its close
Bars == {[open |-> o, high |-> Max(o, c), low |-> Min(o, c), close |-> c] :
            o \in Prices, c \in Prices}

\* Asset.config: what the constructor keeps of its arguments
AssetConfig(ticker, commission, multiplier, slippage, currency, envcomm) ==
    IF multiplier = NoNumber
    THEN [ticker |-> ticker,
          commission |-> IF commission # 0 THEN commission ELSE envcomm,
          commtype |-> COMMTYPE.PERC, multiplier |-> 1,
          stocklike |-> TRUE, rateslike |-> FALSE,
          slippage |-> slippage, currency |-> currency]
    ELSE [ticker |-> ticker,
          commission |-> IF commission # 0 THEN commission ELSE envcomm,
          commtype |-> COMMTYPE.ABS, multiplier |-> multiplier,
          stocklike |-> FALSE, rateslike |-> FALSE,
          slippage |-> slippage, currency |-> currency]

cashlike(a) == a.stocklike \/ a.rateslike

\* the multiplier times the FX close of the instrument's currency pair
Factor(a, d) ==
    IF a.currency = DEFAULT_CURRENCY THEN a.multiplier
    ELSE a.multiplier * d.fx

(* -------------------------------- Order -------------------------------- *)

Order(ticker, size, limit, date) ==
    [ticker |-> ticker, size |-> size, limit |-> limit,
     status |-> STATUS.WAIT, side |-> IF size > 0 THEN 1 ELSE 0 - 1,
     issue_date |-> date, exec_date |-> NoDate]

\* an execution price taken from the close of the date
exec_price_at_close(o, a, bar) ==
    IF o.limit = NoNumber
    THEN [kind |-> "price", price |-> bar.close * (Den + o.side * a.slippage)]
    ELSE IF o.side = 1
         THEN IF o.limit >= bar.low
              THEN [kind |-> "raise", price |-> 0]
              ELSE [kind |-> "none", price |-> 0]
         ELSE IF o.limit <= bar.high
              THEN [kind |-> "raise", price |-> 0]
              ELSE [kind |-> "none", price |-> 0]

\* Order.exec_price, in units of 1/Den.  kind "price": the value returned;
\* "none": the limit is not feasible; "raise": the limit branch reaches the
\* return statement, where `slip` was never assigned (UnboundLocalError).
exec_price(o, a, bar) ==
    IF o.limit = NoNumber
    THEN [kind |-> "price", price |-> bar.open * (Den + o.side * a.slippage)]
    ELSE IF o.side = 1
         THEN IF o.limit >= bar.low
              THEN [kind |-> "raise", price |-> 0]
              ELSE [kind |-> "none", price |-> 0]
         ELSE IF o.limit <= bar.high
              THEN [kind |-> "raise", price |-> 0]
              ELSE [kind |-> "none", price |-> 0]

\* Order.total_comm, in units of 1/(Den*Den), for an order whose exec_price
\* is a price
total_comm(o, a, bar) ==
    IF a.commtype = COMMTYPE.PERC
    THEN 0 - (exec_price(o, a, bar).price * a.commission) * Abs(o.size)
    ELSE 0 - (a.commission * Den) * Abs(o.size)

(* ------------------------------- Broker -------------------------------- *)

ZeroPnl == [t \in Tickers |-> 0]

\* Broker.__init__ with an index of `length` dates
Broker_init(length) ==
    [buffer |-> DEFAULT_BUFFER,
     cash |-> [i \in 0..(length - 1) |-> DEFAULT_CASH * Unit],
     open |-> [i \in 0..(length - 1) |-> DEFAULT_CASH * Unit],
     equity |-> [i \in 0..(length - 1) |-> DEFAULT_CASH * Unit],
     opnl |-> ZeroPnl, ipnl |-> ZeroPnl, tpnl |-> ZeroPnl, cpnl |-> ZeroPnl,
     positions |-> [t \in {} |-> 0], orders |-> << >>, cancels |-> << >>,
     executed |-> << >>, heap |-> << >>, records |-> << >>,
     raised |-> None]

BrokerInit == Broker_init(Length)

\* the entry of the order book (a dict keyed by ticker) for a ticker:
\* the index into b.orders, 0 when there is none
BookIndex(b, ticker) ==
    IF \E i \in 1..Len(b.orders) : b.heap[b.orders[i]].ticker = ticker
    THEN CHOOSE i \in 1..Len(b.orders) : b.heap[b.orders[i]].ticker = ticker
    ELSE 0

\* a cancel that lists the order and leaves its status
cancel_order_keeps_status(b, id) ==
    [b EXCEPT !.cancels = Append(b.cancels, id)]

\* Broker.__cancel_order
cancel_order(b, id) ==
    [b EXCEPT !.heap[id].status = STATUS.CANC,
              !.cancels = Append(b.cancels, id)]

\* self.__orders.update({ticker: order}): a key already present keeps its
\* place in the dict, a new key goes last
book_update(b, ticker, id) ==
    LET i == BookIndex(b, ticker) IN
    IF i = 0 THEN Append(b.orders, id)
    ELSE [b.orders EXCEPT ![i] = id]

\* a pop that leaves the entry in the book
book_pop_keeps(b, ticker) == b.orders

\* self.__orders.pop(ticker)
book_pop(b, ticker) ==
    LET i == BookIndex(b, ticker) IN
    IF i = 0 THEN b.orders
    ELSE SubSeq(b.orders, 1, i - 1) \o SubSeq(b.orders, i + 1, Len(b.orders))

\* a dict.setdefault: a key already present keeps its value
pos_put_setdefault(positions, ticker, size) ==
    [t \in (DOMAIN positions) \cup {ticker} |->
        IF t \in DOMAIN positions THEN positions[t] ELSE size]

\* self.__positions with a key set, and with a key removed
pos_put(positions, ticker, size) ==
    [t \in (DOMAIN positions) \cup {ticker} |->
        IF t = ticker THEN size ELSE positions[t]]

pos_pop(positions, ticker) ==
    [t \in (DOMAIN positions) \ {ticker} |-> positions[t]]

\* Position.add
position_add(size, delta) == size + delta

\* a new_order that stores the order and creates no Position
new_order_without_position(b, ticker, size, limit, date) ==
    IF size = 0 THEN b
    ELSE
      LET i == BookIndex(b, ticker)
          b1 == IF i # 0 THEN cancel_order(b, b.orders[i]) ELSE b
          id == Len(b1.heap) + 1
      IN [b1 EXCEPT !.heap = Append(b1.heap, Order(ticker, size, limit, date)),
                    !.orders = book_update(b1, ticker, id)]

\* a new_order that cancels the pending order before it looks at the size
new_order_cancels_first(b, ticker, size, limit, date) ==
    LET i == BookIndex(b, ticker)
        b1 == IF i # 0 THEN cancel_order(b, b.orders[i]) ELSE b
    IN IF size = 0 THEN b1
       ELSE
         LET id == Len(b1.heap) + 1
             b2 == [b1 EXCEPT !.heap = Append(b1.heap, Order(ticker, size, limit, date)),
                              !.orders = book_update(b1, ticker, id)]
         IN IF ticker \in DOMAIN b2.positions THEN b2
            ELSE [b2 EXCEPT !.positions = pos_put(b2.positions, ticker, 0)]

\* Broker.new_order, called on the date `date` of the instrument's data
new_order(b, ticker, size, limit, date) ==
    IF size = 0 THEN b
    ELSE
      LET i == BookIndex(b, ticker)
          b1 == IF i # 0 THEN cancel_order(b, b.orders[i]) ELSE b
          id == Len(b1.heap) + 1
          b2 == [b1 EXCEPT !.heap = Append(b1.heap, Order(ticker, size, limit, date)),
                           !.orders = book_update(b1, ticker, id)]
      IN IF ticker \in DOMAIN b2.positions THEN b2
         ELSE [b2 EXCEPT !.positions = pos_put(b2.positions, ticker, 0)]

\* Broker.close
close(b, ticker, date) ==
    IF ticker \notin DOMAIN b.positions THEN b
    ELSE new_order(b, ticker, 0 - b.positions[ticker], NoNumber, date)

\* Broker.last_carry, with no carry Base added: the configured rate
last_carry == DEFAULT_CRATE

\* a position loop whose carry reaches cpnl and cash but not the equity
bop_position_carry_off_equity(b, ticker) ==
    LET a == cfg.assets[ticker]
        size == b.positions[ticker]
        factor == Factor(a, data)
        MTM == size * (data.bar[ticker].open - data.last[ticker]) * factor * Unit
        b1 == [b EXCEPT !.open[b.buffer] = @ + MTM,
                        !.equity[b.buffer] = @ + MTM,
                        !.opnl[ticker] = @ + MTM,
                        !.cash[b.buffer] = IF a.stocklike THEN @ ELSE @ + MTM]
        carry == 0 - size * factor * data.last[ticker] * last_carry * Den
    IN IF cashlike(a)
       THEN [b1 EXCEPT !.cash[b.buffer] = @ + carry,
                       !.cpnl[ticker] = @ + carry]
       ELSE b1

\* beg_of_period, the body of the loop over the positions, for one position
bop_position(b, ticker) ==
    LET a == cfg.assets[ticker]
        size == b.positions[ticker]
        factor == Factor(a, data)
        MTM == size * (data.bar[ticker].open - data.last[ticker]) * factor * Unit
        b1 == [b EXCEPT !.open[b.buffer] = @ + MTM,
                        !.equity[b.buffer] = @ + MTM,
                        !.opnl[ticker] = @ + MTM,
                        !.cash[b.buffer] = IF a.stocklike THEN @ ELSE @ + MTM]
        dollar_expo == size * factor * data.last[ticker]
        carry == 0 - dollar_expo * last_carry * Den
    IN IF cashlike(a)
       THEN [b1 EXCEPT !.open[b.buffer] = @ + carry,
                       !.equity[b.buffer] = @ + carry,
                       !.cash[b.buffer] = @ + carry,
                       !.cpnl[ticker] = @ + carry]
       ELSE b1

RECURSIVE bop_positions(_, _)
bop_positions(b, ts) ==
    IF ts = << >> THEN b
    ELSE IF Head(ts) \in DOMAIN b.positions
         THEN bop_positions(bop_position(b, Head(ts)), Tail(ts))
         ELSE bop_positions(b, Tail(ts))

\* the equity effect of an execution: the assignment of broker.py:249
\* replaces the commission that broker.py:242 put in M2M
exec_m2m(o, a, price, comm) ==
    o.size * (data.bar[o.ticker].open * Den - price) * Factor(a, data) * Den

\* Broker.__execute_order
execute_order(b, id) ==
    LET o == b.heap[id]
        ticker == o.ticker
        a == cfg.assets[ticker]
        ep == exec_price(o, a, data.bar[ticker])
    IN IF ep.kind = "raise" THEN [b EXCEPT !.raised = "UnboundLocalError"]
       ELSE IF ep.kind = "none" THEN b
       ELSE
         LET comm == total_comm(o, a, data.bar[ticker])
             CASH == IF a.stocklike THEN comm - o.size * ep.price * Den ELSE comm
             M2M == exec_m2m(o, a, ep.price, comm)
             size == position_add(b.positions[ticker], o.size)
         IN [b EXCEPT !.tpnl[ticker] = @ + comm + M2M,
                      !.cash[b.buffer] = @ + CASH,
                      !.open[b.buffer] = @ + M2M,
                      !.equity[b.buffer] = @ + M2M,
                      !.positions = IF size = 0 THEN pos_pop(b.positions, ticker)
                                    ELSE pos_put(b.positions, ticker, size),
                      !.heap[id].exec_date = data.buffer,
                      !.heap[id].status = STATUS.EXEC,
                      !.executed = Append(b.executed, id)]

\* beg_of_period, the loop over order_stack (a copy of the book's values);
\* an exception of __execute_order ends the call
RECURSIVE bop_orders(_, _)
bop_orders(b, stack) ==
    IF stack = << >> THEN b
    ELSE LET id == Head(stack) IN
         IF b.heap[id].status = STATUS.WAIT
         THEN LET b1 == execute_order(b, id) IN
              IF b1.raised # None THEN b1
              ELSE bop_orders([b1 EXCEPT !.orders = book_pop(b1, b1.heap[id].ticker)],
                              Tail(stack))
         ELSE bop_orders(b, Tail(stack))

\* a roll-forward that takes open_equity from the previous open_equity
beg_of_period_rolls_open(b) ==
    LET b1 == [b EXCEPT !.opnl = ZeroPnl, !.ipnl = ZeroPnl,
                        !.cpnl = ZeroPnl, !.tpnl = ZeroPnl,
                        !.cash[b.buffer] = b.cash[b.buffer - 1],
                        !.open[b.buffer] = b.open[b.buffer - 1],
                        !.equity[b.buffer] = b.equity[b.buffer - 1]]
        b2 == bop_positions(b1, TickerOrder)
    IN bop_orders(b2, b2.orders)

\* Broker.beg_of_period
beg_of_period(b) ==
    LET b1 == [b EXCEPT !.opnl = ZeroPnl, !.ipnl = ZeroPnl,
                        !.cpnl = ZeroPnl, !.tpnl = ZeroPnl,
                        !.cash[b.buffer] = b.cash[b.buffer - 1],
                        !.open[b.buffer] = b.equity[b.buffer - 1],
                        !.equity[b.buffer] = b.equity[b.buffer - 1]]
        b2 == bop_positions(b1, TickerOrder)
    IN bop_orders(b2, b2.orders)

\* a row of self.__records: the date, the ticker and the size held (the
\* size with its sign flipped for a rates-like instrument)
record(b, ticker, size) ==
    [date |-> b.buffer, ticker |-> ticker,
     size |-> IF cfg.assets[ticker].rateslike THEN 0 - size ELSE size]

\* an end-of-period mark-to-market taken from the previous close
eop_position_from_last_close(b, ticker) ==
    LET a == cfg.assets[ticker]
        size == b.positions[ticker]
        MTM == size * (data.bar[ticker].close - data.last[ticker])
                    * Factor(a, data) * Unit
    IN [b EXCEPT !.equity[b.buffer] = @ + MTM,
                 !.ipnl[ticker] = @ + MTM,
                 !.cash[b.buffer] = IF a.stocklike THEN @ ELSE @ + MTM,
                 !.records = Append(@, record(b, ticker, size))]

\* an end-of-period mark-to-market that reaches the open equity as well
eop_position_marks_open(b, ticker) ==
    LET a == cfg.assets[ticker]
        size == b.positions[ticker]
        MTM == size * (data.bar[ticker].close - data.bar[ticker].open)
                    * Factor(a, data) * Unit
    IN [b EXCEPT !.equity[b.buffer] = @ + MTM,
                 !.open[b.buffer] = @ + MTM,
                 !.ipnl[ticker] = @ + MTM,
                 !.cash[b.buffer] = IF a.stocklike THEN @ ELSE @ + MTM,
                 !.records = Append(@, record(b, ticker, size))]

\* end_of_period, the body of the loop, for one position
eop_position(b, ticker) ==
    LET a == cfg.assets[ticker]
        size == b.positions[ticker]
        MTM == size * (data.bar[ticker].close - data.bar[ticker].open)
                    * Factor(a, data) * Unit
    IN [b EXCEPT !.equity[b.buffer] = @ + MTM,
                 !.ipnl[ticker] = @ + MTM,
                 !.cash[b.buffer] = IF a.stocklike THEN @ ELSE @ + MTM,
                 !.records = Append(@, record(b, ticker, size))]

RECURSIVE eop_positions(_, _)
eop_positions(b, ts) ==
    IF ts = << >> THEN b
    ELSE IF Head(ts) \in DOMAIN b.positions
         THEN eop_positions(eop_position(b, Head(ts)), Tail(ts))
         ELSE eop_positions(b, Tail(ts))

\* Broker.end_of_period
end_of_period(b) == eop_positions(b, TickerOrder)

\* Broker.next
broker_next(b) == [b EXCEPT !.buffer = @ + 1]

\* _DEFAULT_MAX_LOSS = float(os.getenv("DEF_MAX_LOSS", "-99")): the floor of
\* the environment c, the default when the environment sets none
max_loss(c) ==
    IF "max_loss" \in DOMAIN c THEN c.max_loss ELSE DEFAULT_MAX_LOSS

\* a drawdown test that never stops the loop
max_loss_never_reached(b) == FALSE

\* Broker.cum_return < _DEFAULT_MAX_LOSS, with
\* cum_return = 100 * (curr_equity / startcash - 1)
max_loss_reached(b) ==
    100 * (b.equity[b.buffer] - DEFAULT_CASH * Unit)
        < max_loss(cfg) * (DEFAULT_CASH * Unit)

(* ------------------------- set-up of a Backtest ------------------------ *)

CommValues == {0, MaxComm}

\* add_asset("A", ...) without a multiplier: stock-like, home currency;
\* add_hedge("B", ..., multiplier) : future-like, quoted in USD.
\* commission is the argument given, envcomm the DEF_SCOMM / DEF_FCOMM of
\* the environment.
Configs ==
    {[assets |-> [t \in Tickers |->
                    IF t = "A"
                    THEN AssetConfig(t, c, NoNumber, s, DEFAULT_CURRENCY, e)
                    ELSE AssetConfig(t, c, MultB, s, "USD", e)],
      hedges |-> h] :
        c \in CommValues, e \in CommValues,
        s \in {0, DEFAULT_SLIPPAGE}, h \in BOOLEAN}

FlatBar == [open |-> 1, high |-> 1, low |-> 1, close |-> 1]

DataInit ==
    [bar |-> [t \in Tickers |-> FlatBar], last |-> [t \in Tickers |-> 1],
     fx |-> 1, buffer |-> DEFAULT_BUFFER]

\* the instruments with data: "B" only when it was added
Added == IF cfg.hedges THEN Tickers ELSE {"A"}

\* the history the hedge "B" and the USDBRL pair were constructed with:
\* one fixed series, with an overnight gap and an intraday move in it
HedgeBar(date) ==
    CASE date % 3 = 2 -> [open |-> 1, high |-> 2, low |-> 1, close |-> 2]
      [] date % 3 = 0 -> [open |-> 1, high |-> 1, low |-> 1, close |-> 1]
      [] OTHER -> [open |-> 2, high |-> 2, low |-> 1, close |-> 1]

FxClose(date) == 1 + (date % MaxFx)

\* Data.next of every instrument: index 0 moves to the next row, the
\* previous close becomes close[-1]
DataNext(bar) ==
    [bar |-> [t \in Tickers |->
                IF t = "A" THEN bar
                ELSE IF cfg.hedges THEN HedgeBar(data.buffer + 1) ELSE data.bar[t]],
     last |-> [t \in Tickers |-> data.bar[t].close],
     fx |-> IF cfg.hedges THEN FxClose(data.buffer + 1) ELSE data.fx,
     buffer |-> data.buffer + 1]

\* Backtest.__init__: the main line and the broker at the default cursor, the
\* three dictionaries empty
SyncInit ==
    [main |-> DEFAULT_BUFFER, brk |-> DEFAULT_BUFFER,
     bases |-> [t \in {} |-> 0], assets |-> [t \in {} |-> 0],
     hedges |-> [t \in {} |-> 0]]

\* Line.__new__ of an array of one element, not yet read
RdInit == [len |-> 1, buffer |-> DEFAULT_BUFFER, k |-> 0,
           out |-> [kind |-> "unread", pos |-> 0 - 1]]

\* Pipeline.__init__: the main line at the default cursor, no universe, no
\* chain and no ranking yet
PipeInit ==
    [kind |-> None, main |-> DEFAULT_BUFFER, assets |-> [t \in {} |-> 0],
     chain |-> << >>, curr |-> None, universe |-> << >>, maturity |-> 0,
     ref_year |-> 0, n |-> 0, actives |-> {}, rank |-> << >>,
     out |-> [kind |-> "uncalled", value |-> << >>]]

(* ----------------------------- Backtest.run ---------------------------- *)

Last(s) == s[Len(s)]

\* a loop body that runs the strategy before the pipeline
NextStep_strategy_first(step, hedges) ==
    CASE step = "advance" -> "bop"
      [] step = "bop" -> "strategy"
      [] step = "strategy" -> "pipeline"
      [] step = "pipeline" -> IF hedges THEN "hpipeline" ELSE "eop"
      [] step = "hpipeline" -> "hstrategy"
      [] step = "hstrategy" -> "eop"
      [] OTHER -> "loop"

\* the statement that follows a step of the loop body (backtest.py:313-321)
NextStep(step, hedges) ==
    CASE step = "advance" -> "bop"
      [] step = "bop" -> "pipeline"
      [] step = "pipeline" -> "strategy"
      [] step = "strategy" -> IF hedges THEN "hpipeline" ELSE "eop"
      [] step = "hpipeline" -> "hstrategy"
      [] step = "hstrategy" -> "eop"
      [] OTHER -> "loop"

\* the instrument of the pipeline / strategy at work
Ticker(step) == IF step \in {"pipeline", "strategy"} THEN "A" ELSE "B"

Init ==
    /\ broker = BrokerInit
    /\ data = DataInit
    /\ cfg \in Configs
    /\ pc = "loop"
    /\ steps = << >>
    /\ sync = SyncInit
    /\ rd = RdInit
    /\ pipe = PipeInit

\* while self.dt < self.__lastdate: self.__advance_buffers()
RunAdvance ==
    /\ pc = "loop"
    /\ broker.buffer < Length - 1
    /\ \E bar \in Bars : data' = DataNext(bar)
    /\ broker' = broker_next(broker)
    /\ pc' = NextStep("advance", cfg.hedges)
    /\ steps' = <<"advance">>
    /\ UNCHANGED <<cfg, sync, rd, pipe>>

\* the loop condition fails
RunDone ==
    /\ pc = "loop"
    /\ ~(broker.buffer < Length - 1)
    /\ pc' = "done"
    /\ UNCHANGED <<broker, data, cfg, steps, sync, rd, pipe>>

\* self.__broker.beg_of_period()
RunBop ==
    /\ pc = "bop"
    /\ broker' = beg_of_period(broker)
    /\ pc' = IF broker'.raised # None THEN "failed" ELSE NextStep("bop", cfg.hedges)
    /\ steps' = Append(steps, "bop")
    /\ UNCHANGED <<data, cfg, sync, rd, pipe>>

\* self.__pipeline.next() / self.__hpipeline.next(): a pipeline either
\* keeps its instrument or asks the Broker to flatten it
PipelineNext ==
    /\ pc \in {"pipeline", "hpipeline"}
    /\ \E flatten \in BOOLEAN :
          broker' = IF flatten THEN close(broker, Ticker(pc), data.buffer)
                    ELSE broker
    /\ pc' = NextStep(pc, cfg.hedges)
    /\ steps' = Append(steps, pc)
    /\ UNCHANGED <<data, cfg, sync, rd, pipe>>

\* a Broker.new_order call made by Strategy.next (Strategy.order)
StrategyOrder ==
    /\ pc \in {"strategy", "hstrategy"}
    /\ Len(broker.heap) < MaxOrders
    /\ \E size \in Sizes, limit \in Limits :
          broker' = new_order(broker, Ticker(pc), size, limit, data.buffer)
    /\ UNCHANGED <<data, cfg, pc, steps, sync, rd, pipe>>

\* Strategy.next returns
StrategyReturn ==
    /\ pc \in {"strategy", "hstrategy"}
    /\ pc' = NextStep(pc, cfg.hedges)
    /\ steps' = Append(steps, pc)
    /\ UNCHANGED <<broker, data, cfg, sync, rd, pipe>>

\* self.__broker.end_of_period(), then the drawdown test
RunEop ==
    /\ pc = "eop"
    /\ broker' = end_of_period(broker)
    /\ pc' = IF max_loss_reached(broker') THEN "done" ELSE NextStep("eop", cfg.hedges)
    /\ steps' = Append(steps, "eop")
    /\ UNCHANGED <<data, cfg, sync, rd, pipe>>

Next ==
    \/ RunAdvance
    \/ RunDone
    \/ RunBop
    \/ PipelineNext
    \/ StrategyOrder
    \/ StrategyReturn
    \/ RunEop

Spec == Init /\ [][Next]_vars

(* ------------------- the Broker alone, called freely ------------------- *)

\* the exception of the previous call has reached the caller
Called(b) == [b EXCEPT !.raised = None]

\* both instruments added, with the default slippage and a commission
InitBroker ==
    /\ broker = BrokerInit
    /\ data = DataInit
    /\ cfg \in {c \in Configs : /\ c.hedges
                                /\ c.assets["A"].slippage = DEFAULT_SLIPPAGE
                                /\ c.assets["A"].commission = MaxComm}
    /\ pc = "api"
    /\ steps = << >>
    /\ sync = SyncInit
    /\ rd = RdInit
    /\ pipe = PipeInit

\* Broker.next, with Data.next of the instruments
ApiNext ==
    /\ pc = "api"
    /\ Len(steps) < MaxCalls
    /\ broker.buffer < Length - 1
    /\ \E bar \in Bars : data' = DataNext(bar)
    /\ broker' = broker_next(Called(broker))
    /\ steps' = Append(steps, "next")
    /\ UNCHANGED <<cfg, pc, sync, rd, pipe>>

ApiBegOfPeriod ==
    /\ pc = "api"
    /\ Len(steps) < MaxCalls
    /\ broker' = beg_of_period(Called(broker))
    /\ steps' = Append(steps, "beg_of_period")
    /\ UNCHANGED <<data, cfg, pc, sync, rd, pipe>>

ApiNewOrder ==
    /\ pc = "api"
    /\ Len(steps) < MaxCalls
    /\ Len(broker.heap) < MaxOrders
    /\ \E t \in Added, size \in Sizes, limit \in Limits :
          broker' = new_order(Called(broker), t, size, limit, data.buffer)
    /\ steps' = Append(steps, "new_order")
    /\ UNCHANGED <<data, cfg, pc, sync, rd, pipe>>

ApiClose ==
    /\ pc = "api"
    /\ Len(steps) < MaxCalls
    /\ Len(broker.heap) < MaxOrders
    /\ \E t \in Added : broker' = close(Called(broker), t, data.buffer)
    /\ steps' = Append(steps, "close")
    /\ UNCHANGED <<data, cfg, pc, sync, rd, pipe>>

ApiEndOfPeriod ==
    /\ pc = "api"
    /\ Len(steps) < MaxCalls
    /\ broker' = end_of_period(Called(broker))
    /\ steps' = Append(steps, "end_of_period")
    /\ UNCHANGED <<data, cfg, pc, sync, rd, pipe>>

NextBroker ==
    \/ ApiNext
    \/ ApiBegOfPeriod
    \/ ApiNewOrder
    \/ ApiClose
    \/ ApiEndOfPeriod

SpecBroker == InitBroker /\ [][NextBroker]_vars

(* ------------------- Backtest.add_* and advance_buffers ----------------- *)

Dicts == {"bases", "assets", "hedges"}
LineNames == {"signal"}

\* Data.__init__: the lines of the frame and the index, at the default cursor
DataNew ==
    [buffer |-> DEFAULT_BUFFER,
     lines |-> [n \in {"close", "__index"} |-> DEFAULT_BUFFER]]

\* Data.next
data_next(d) ==
    [buffer |-> d.buffer + 1,
     lines |-> [n \in DOMAIN d.lines |-> d.lines[n] + 1]]

\* Data.add_line of a Line whose cursor is buffer
add_line(d, name, buffer) ==
    [d EXCEPT !.lines = [n \in DOMAIN d.lines \cup {name} |->
                            IF n = name THEN buffer ELSE d.lines[n]]]

\* dict.update({ticker: obj})
dict_update(dict, ticker, obj) ==
    [t \in DOMAIN dict \cup {ticker} |-> IF t = ticker THEN obj ELSE dict[t]]

\* Backtest.datas, {**bases, **assets, **hedges}: the dictionary whose object
\* the merged dictionary holds under a ticker
datas(s, ticker) ==
    IF ticker \in DOMAIN s.hedges THEN "hedges"
    ELSE IF ticker \in DOMAIN s.assets THEN "assets"
    ELSE IF ticker \in DOMAIN s.bases THEN "bases"
    ELSE None

advanced(s, name) ==
    [t \in DOMAIN s[name] |->
        IF datas(s, t) = name THEN data_next(s[name][t]) ELSE s[name][t]]

\* Backtest.__advance_buffers
advance_buffers(s) ==
    [main |-> s.main + 1, brk |-> s.brk + 1,
     bases |-> advanced(s, "bases"), assets |-> advanced(s, "assets"),
     hedges |-> advanced(s, "hedges")]

InitSync ==
    /\ broker = BrokerInit
    /\ data = DataInit
    /\ cfg \in {c \in Configs : /\ c.hedges
                                /\ c.assets["A"].slippage = DEFAULT_SLIPPAGE
                                /\ c.assets["A"].commission = MaxComm}
    /\ pc = "setup"
    /\ steps = << >>
    /\ sync = SyncInit
    /\ rd = RdInit
    /\ pipe = PipeInit

AddBase ==
    /\ pc = "setup"
    /\ \E t \in Tickers :
          sync' = [sync EXCEPT !.bases = dict_update(sync.bases, t, DataNew)]
    /\ UNCHANGED <<broker, data, cfg, pc, steps, rd, pipe>>

AddAsset ==
    /\ pc = "setup"
    /\ \E t \in Tickers :
          sync' = [sync EXCEPT !.assets = dict_update(sync.assets, t, DataNew)]
    /\ UNCHANGED <<broker, data, cfg, pc, steps, rd, pipe>>

AddHedge ==
    /\ pc = "setup"
    /\ \E t \in Tickers :
          sync' = [sync EXCEPT !.hedges = dict_update(sync.hedges, t, DataNew)]
    /\ UNCHANGED <<broker, data, cfg, pc, steps, rd, pipe>>

\* Strategy.init before the loop: add_line of Line(array), whose cursor is
\* the default
AddLine ==
    /\ pc = "setup"
    /\ \E d \in Dicts : \E t \in DOMAIN sync[d] : \E n \in LineNames :
          sync' = [sync EXCEPT
                     ![d] = dict_update(sync[d], t,
                               add_line(sync[d][t], n, DEFAULT_BUFFER))]
    /\ UNCHANGED <<broker, data, cfg, pc, steps, rd, pipe>>

\* Broker.get_beta in the loop: add_line of Line(beta, buffer = data.buffer)
\* to the data of a position
AddBeta ==
    /\ pc = "running"
    /\ \E d \in {"assets", "hedges"} : \E t \in DOMAIN sync[d] :
          /\ "beta" \notin DOMAIN sync[d][t].lines
          /\ sync' = [sync EXCEPT
                        ![d] = dict_update(sync[d], t,
                                  add_line(sync[d][t], "beta", sync[d][t].buffer))]
    /\ UNCHANGED <<broker, data, cfg, pc, steps, rd, pipe>>

AdvanceBuffers ==
    /\ pc \in {"setup", "running"}
    /\ sync.main < Length - 1
    /\ sync' = advance_buffers(sync)
    /\ pc' = "running"
    /\ UNCHANGED <<broker, data, cfg, steps, rd, pipe>>

NextSync ==
    \/ AddBase
    \/ AddAsset
    \/ AddHedge
    \/ AddLine
    \/ AddBeta
    \/ AdvanceBuffers

SpecSync == InitSync /\ [][NextSync]_vars

(* -------------------------------- Line --------------------------------- *)

MaxOffset == Length + 2
Offsets == (0 - MaxOffset)..MaxOffset

\* ndarray.__getitem__ of an array of len elements: an index in 0..len-1 is
\* that position, an index in -len..-1 counts from the end, any other index
\* is an IndexError
ndarray_getitem(len, key) ==
    IF key >= len \/ key < 0 - len THEN [kind |-> "IndexError", pos |-> 0 - 1]
    ELSE [kind |-> "value", pos |-> IF key < 0 THEN len + key ELSE key]

\* Line.__getitem__: key += self.__buffer; super().__getitem__(key)
Line_getitem(line, key) == ndarray_getitem(line.len, key + line.buffer)

InitLine ==
    /\ broker = BrokerInit
    /\ data = DataInit
    /\ cfg \in {c \in Configs : /\ c.hedges
                                /\ c.assets["A"].slippage = DEFAULT_SLIPPAGE
                                /\ c.assets["A"].commission = MaxComm}
    /\ pc = "line"
    /\ steps = << >>
    /\ sync = SyncInit
    /\ pipe = PipeInit
    /\ \E len \in 1..Length :
          rd = [len |-> len, buffer |-> DEFAULT_BUFFER, k |-> 0,
                out |-> [kind |-> "unread", pos |-> 0 - 1]]

\* Line.next
LineNext ==
    /\ pc = "line"
    /\ rd.buffer < Length
    /\ rd' = [rd EXCEPT !.buffer = rd.buffer + 1]
    /\ UNCHANGED <<broker, data, cfg, pc, steps, sync, pipe>>

\* line[k]
LineRead ==
    /\ pc = "line"
    /\ \E k \in Offsets :
          rd' = [rd EXCEPT !.k = k, !.out = Line_getitem(rd, k)]
    /\ UNCHANGED <<broker, data, cfg, pc, steps, sync, pipe>>

NextLine ==
    \/ LineNext
    \/ LineRead

SpecLine == InitLine /\ [][NextLine]_vars


(* ============================== claims ================================= *)

Ids(b) == 1..Len(b.heap)
InBook(b, id) == \E i \in 1..Len(b.orders) : b.orders[i] = id
InList(list, id) == \E i \in 1..Len(list) : list[i] = id
IsPrefix(s, t) == Len(s) <= Len(t) /\ \A i \in 1..Len(s) : s[i] = t[i]

(* ---- C1 ---- *)

BookUnique ==
    \A i, j \in 1..Len(broker.orders) :
        /\ broker.heap[broker.orders[i]].status = STATUS.WAIT
        /\ (i # j => broker.heap[broker.orders[i]].ticker
                        # broker.heap[broker.orders[j]].ticker)

\* a step that stores a new order for an instrument with an order in the book
CancelFirst ==
    \A t \in Tickers :
        LET i == BookIndex(broker, t)
            id == Len(broker.heap) + 1
        IN (/\ i # 0
            /\ Len(broker'.heap) = id
            /\ broker'.heap[id].ticker = t)
           => /\ broker'.heap[broker.orders[i]].status = STATUS.CANC
              /\ broker'.cancels = Append(broker.cancels, broker.orders[i])
              /\ ~InBook(broker', broker.orders[i])
              /\ InBook(broker', id)
              /\ broker'.heap[id].status = STATUS.WAIT

\* C1: the order book never holds two orders of one instrument, every order
\* in it is Waiting, and a new_order that stores an order for an instrument
\* with an outstanding order leaves that order Cancelled, last in the cancel
\* list and out of the book, and the new order Waiting in the book.
C1_OneWaitingOrder == [] BookUnique /\ [][CancelFirst]_vars

C1_Witness ==
    \E c \in Ids(broker), w \in Ids(broker) :
        /\ broker.heap[c].ticker = broker.heap[w].ticker
        /\ broker.heap[c].status = STATUS.CANC
        /\ InList(broker.cancels, c)
        /\ broker.heap[w].status = STATUS.WAIT
        /\ InBook(broker, w)

(* ---- C2 ---- *)

StatusMoves ==
    /\ \A id \in Ids(broker) :
          /\ broker'.heap[id].status # broker.heap[id].status
                => /\ broker.heap[id].status = STATUS.WAIT
                   /\ broker'.heap[id].status \in {STATUS.EXEC, STATUS.CANC}
          /\ broker.heap[id].status = STATUS.CANC
                => /\ ~InBook(broker', id)
                   /\ InList(broker'.cancels, id)
                   /\ ~InList(broker'.executed, id)
          /\ broker.heap[id].status = STATUS.EXEC
                => ~InList(broker'.cancels, id)
    /\ IsPrefix(broker.cancels, broker'.cancels)

\* C2: a status changes only from Waiting, to Executed or to Cancelled; a
\* Cancelled order stays out of the book and of the executed list and in the
\* cancel list, which only grows; an Executed order never enters the cancel
\* list.
C2_StatusTerminal == [][StatusMoves]_vars

\* an order was cancelled by its successor, the successor was executed, and
\* calls were made after that
C2_Witness ==
    \E e \in Ids(broker), c \in Ids(broker) :
        /\ broker.heap[e].status = STATUS.EXEC
        /\ broker.heap[c].status = STATUS.CANC
        /\ broker.heap[e].ticker = broker.heap[c].ticker
        /\ c < e
        /\ Len(steps) = MaxCalls

(* ---- C3 ---- *)

Infeasible(id) ==
    /\ broker.heap[id].status = STATUS.WAIT
    /\ broker.heap[id].limit # NoNumber
    /\ exec_price(broker.heap[id], cfg.assets[broker.heap[id].ticker],
                  data.bar[broker.heap[id].ticker]).kind = "none"

\* C3: beg_of_period leaves a limit order that is infeasible on its date
\* Waiting and in the order book, for the next beg_of_period to try.
C3_InfeasibleStaysInBook ==
    [][\A id \in Ids(broker) :
          (pc = "bop" /\ InBook(broker, id) /\ Infeasible(id))
             => (InBook(broker', id) /\ broker'.heap[id].status = STATUS.WAIT)]_vars

(* ---- C4 ---- *)

\* the steps of one date, in the order of the claim
Expected(hedges) ==
    IF hedges
    THEN <<"advance", "bop", "pipeline", "strategy", "hpipeline", "hstrategy", "eop">>
    ELSE <<"advance", "bop", "pipeline", "strategy", "eop">>

StepsInOrder ==
    /\ IsPrefix(steps, Expected(cfg.hedges))
    /\ (pc = "loop" /\ steps # << >>) => steps = Expected(cfg.hedges)
    /\ pc \in {"bop", "pipeline", "strategy", "hpipeline", "hstrategy", "eop"}
          => Expected(cfg.hedges)[Len(steps) + 1] = pc

\* a date begins only when the date before it was ended by end_of_period
DatesInOrder ==
    (steps' # steps /\ Len(steps') = 1)
        => /\ steps'[1] = "advance"
           /\ steps \in {<< >>, Expected(cfg.hedges)}
           /\ broker'.buffer = broker.buffer + 1

\* C4: on every date the steps taken are, once each and in this order, the
\* advance, beg_of_period, Pipeline.next, Strategy.next, with hedges the
\* hedge pipeline's and the hedge strategy's next, and end_of_period; a date
\* begins only after the end_of_period of the date before it.
C4_StepOrder == [] StepsInOrder /\ [][DatesInOrder]_vars

C4_Witness ==
    /\ cfg.hedges
    /\ steps = Expected(TRUE)
    /\ broker.buffer = DEFAULT_BUFFER + 2
    /\ Len(broker.executed) > 0

(* ---- C7 ---- *)

AfterEop == Len(steps) > 0 /\ Last(steps) = "eop"
AfterBop == Len(steps) > 0 /\ Last(steps) = "bop" /\ broker.raised = None

\* the orders of an instrument executed on the current date
ExecutedToday(t) ==
    {id \in Ids(broker) : /\ broker.heap[id].ticker = t
                          /\ broker.heap[id].status = STATUS.EXEC
                          /\ broker.heap[id].exec_date = data.buffer}

Held(t) == IF t \in DOMAIN broker.positions THEN broker.positions[t] ELSE 0

\* open[0] * (1 + side * slippage), in units of 1/Den
MarketPrice(id) ==
    LET o == broker.heap[id] IN
    data.bar[o.ticker].open * (Den + o.side * cfg.assets[o.ticker].slippage)

\* -rate * |size|, in units of 1/(Den*Den), the rate a fixed amount per unit
\* or a percentage of the execution price
Commission(id) ==
    LET o == broker.heap[id]
        a == cfg.assets[o.ticker]
    IN IF a.commtype = COMMTYPE.PERC
       THEN 0 - MarketPrice(id) * a.commission * Abs(o.size)
       ELSE 0 - a.commission * Den * Abs(o.size)

\* size * (open[0] - exec) * effective multiplier, in units of 1/(Den*Den)
TradeMTM(id) ==
    LET o == broker.heap[id] IN
    o.size * (data.bar[o.ticker].open * Den - MarketPrice(id))
           * Factor(cfg.assets[o.ticker], data) * Den

Decomposed(t, id) ==
    LET d == broker.heap[id].size
        old == Held(t) - d
        bar == data.bar[t]
        f == Factor(cfg.assets[t], data)
        exec == MarketPrice(id)
        sum == broker.opnl[t] + broker.tpnl[t] + broker.ipnl[t]
    IN /\ sum = ( old * (bar.open - data.last[t]) * Den
                + d * (bar.open * Den - exec)
                + (old + d) * (bar.close - bar.open) * Den ) * f * Den
       /\ sum = ( d * (bar.close * Den - exec)
                + old * (bar.close - data.last[t]) * Den ) * f * Den

\* C7: after end_of_period, for an instrument with zero commission held with
\* size old at the previous close and a trade of size d executed at the
\* beginning of the period at price exec, opnl + tpnl + ipnl is
\* (old*(open - last_close) + d*(open - exec) + (old+d)*(close - open)) times
\* the effective multiplier, which is d*(close - exec) + old*(close -
\* last_close) times the effective multiplier.
C7_PnlDecomposition ==
    AfterEop =>
        \A t \in Tickers : \A id \in ExecutedToday(t) :
            cfg.assets[t].commission = 0 => Decomposed(t, id)

C7_Witness ==
    /\ AfterEop
    /\ \E t \in Tickers : \E id \in ExecutedToday(t) :
          /\ cfg.assets[t].commission = 0
          /\ cfg.assets[t].slippage # 0
          /\ Held(t) # broker.heap[id].size
          /\ Held(t) # 0
          /\ data.bar[t].open # data.last[t]
          /\ data.bar[t].close # data.bar[t].open

(* ---- C8 ---- *)

PeriodPnl(t) == broker.opnl[t] + broker.ipnl[t] + broker.tpnl[t] + broker.cpnl[t]

RECURSIVE PnlOver(_)
PnlOver(S) ==
    IF S = {} THEN 0
    ELSE LET t == CHOOSE y \in S : TRUE IN PeriodPnl(t) + PnlOver(S \ {t})

\* C8: after end_of_period the sum over the instruments of opnl + ipnl +
\* tpnl + cpnl is equity[0] - equity[-1].
C8_LedgerReconciles ==
    AfterEop =>
        PnlOver(Tickers)
            = broker.equity[broker.buffer] - broker.equity[broker.buffer - 1]

(* ---- C9 ---- *)

\* the orders that a step executes
Newly == {id \in Ids(broker) : /\ broker.heap[id].status = STATUS.WAIT
                               /\ broker'.heap[id].status = STATUS.EXEC}

\* size * exec, the cash a stock-like instrument consumes
StockCash(id) ==
    LET o == broker.heap[id] IN
    IF cfg.assets[o.ticker].stocklike THEN o.size * MarketPrice(id) * Den ELSE 0

RECURSIVE CommissionOver(_)
CommissionOver(S) ==
    IF S = {} THEN 0
    ELSE LET id == CHOOSE y \in S : TRUE IN Commission(id) + CommissionOver(S \ {id})

RECURSIVE TradeMTMOver(_)
TradeMTMOver(S) ==
    IF S = {} THEN 0
    ELSE LET id == CHOOSE y \in S : TRUE IN TradeMTM(id) + TradeMTMOver(S \ {id})

RECURSIVE StockCashOver(_)
StockCashOver(S) ==
    IF S = {} THEN 0
    ELSE LET id == CHOOSE y \in S : TRUE IN StockCash(id) + StockCashOver(S \ {id})

\* the ledger of the date before any execution: the roll-forward, the
\* overnight mark-to-market and the carry
BeforeExecutions == beg_of_period([broker EXCEPT !.orders = << >>])

CommissionCharged ==
    (pc = "bop" /\ pc' = "pipeline" /\ Newly # {}) =>
        LET i == broker.buffer
            base == BeforeExecutions
        IN /\ broker'.cash[i] = base.cash[i] + CommissionOver(Newly)
                                    - StockCashOver(Newly)
           /\ broker'.equity[i] = base.equity[i] + CommissionOver(Newly)
                                    + TradeMTMOver(Newly)
           /\ broker'.open[i] = base.open[i] + CommissionOver(Newly)
                                    + TradeMTMOver(Newly)
           /\ \A t \in Tickers :
                 LET mine == {id \in Newly : broker.heap[id].ticker = t} IN
                 broker'.tpnl[t] = CommissionOver(mine) + TradeMTMOver(mine)

\* C9: a beg_of_period that executes orders moves cash[0], equity[0],
\* open_equity[0] and tpnl each by the total commission -rate * |size| of
\* the orders, besides the cash a stock-like instrument consumes and the
\* trade's mark-to-market.
C9_CommissionCharged == [][CommissionCharged]_vars

(* ---- C10 ---- *)

NextBar ==
    /\ \A id \in Ids(broker) :
          broker.heap[id].status = STATUS.EXEC
             => /\ broker.heap[id].exec_date > broker.heap[id].issue_date
                /\ broker.heap[id].limit = NoNumber
                      => broker.heap[id].exec_date = broker.heap[id].issue_date + 1
    /\ \A id \in Ids(broker) :
          broker.heap[id].issue_date = data.buffer
             => broker.heap[id].status # STATUS.EXEC
    /\ AfterBop =>
          \A t \in Tickers : \A id \in ExecutedToday(t) :
              broker.tpnl[t] = Commission(id) + TradeMTM(id)

\* C10: an Executed order was executed on a date later than its issue date,
\* a market order on the date after it; no order issued on the current date
\* is Executed; and the execution of a market order is priced at
\* open[0] * (1 + side * slippage) of the execution date, as its tpnl shows.
C10_NextBarExecution == NextBar

C10_Witness ==
    /\ AfterBop
    /\ \E t \in Tickers : \E id \in ExecutedToday(t) :
          /\ cfg.assets[t].slippage # 0
          /\ cfg.assets[t].stocklike
          /\ data.bar[t].open # data.bar[t].close
          /\ Len(broker.executed) = MaxOrders

(* ---- C5 ---- *)

InSync(d) ==
    /\ d.buffer = sync.main
    /\ \A n \in DOMAIN d.lines : d.lines[n] = sync.main

\* C5: after any number of __advance_buffers calls the main line, the
\* broker and every line of every Base, Asset and Hedge held by the
\* Backtest have the same cursor.
C5_CursorsInSync ==
    /\ sync.brk = sync.main
    /\ \A d \in Dicts : \A t \in DOMAIN sync[d] : InSync(sync[d][t])

(* ---- C6 ---- *)

\* C6: a read at offset k is an error when cursor + k is outside
\* 0..len-1, and otherwise is the value at position cursor + k.
C6_ReadInRange ==
    rd.out.kind # "unread" =>
        IF rd.buffer + rd.k < 0 \/ rd.buffer + rd.k >= rd.len
        THEN rd.out.kind = "IndexError"
        ELSE rd.out.kind = "value" /\ rd.out.pos = rd.buffer + rd.k


(* ------------------------ calendar and pipelines ----------------------- *)

\* DEF_LAG of the modelled runs, in business days
DEFAULT_LAG == 1
\* days of a year of the modelled calendar
YearLen == 3
\* the place of date(year, DEF_RATESM, DEF_RATESD) in its year
RollDay == 1
\* a date after every date of the index
FarDay == 3 * YearLen

\* the date of an entry of the index: the business days from a Monday on
Day(i) == 7 * (i \div 5) + (i % 5)
weekday(d) == d % 7
year(d) == d \div YearLen

\* workdays.workday(d, lag, []): the lag-th business day after d
RECURSIVE workday(_, _)
workday(d, lag) ==
    IF lag = 0 THEN d
    ELSE IF weekday(d + 1) < 5 THEN workday(d + 1, lag - 1)
         ELSE workday(d + 1, lag)

\* Pipeline.date and Pipeline.get_lagged_date
Today == Day(pipe.main)
get_lagged_date(lag) == workday(Today, lag)

Kinds == {"Single", "Rolling", "Vertice", "Portfolio"}

\* the assets of a list that pass a test, in the order of the list
RECURSIVE Filter(_, _)
Filter(ts, keep) ==
    IF ts = << >> THEN << >>
    ELSE IF Head(ts) \in keep THEN <<Head(ts)>> \o Filter(Tail(ts), keep)
         ELSE Filter(Tail(ts), keep)

\* an insertion that sorts the earliest maturity first
RECURSIVE chain_insert_ascending(_, _, _)
chain_insert_ascending(assets, chain, t) ==
    IF chain = << >> THEN <<t>>
    ELSE IF assets[Head(chain)].maturity <= assets[t].maturity
         THEN <<Head(chain)>> \o chain_insert_ascending(assets, Tail(chain), t)
         ELSE <<t>> \o chain

\* sorted(..., key = maturity, reverse = True) is stable: an asset goes
\* after the assets already placed whose maturity is not earlier
RECURSIVE chain_insert(_, _, _)
chain_insert(assets, chain, t) ==
    IF chain = << >> THEN <<t>>
    ELSE IF assets[Head(chain)].maturity >= assets[t].maturity
         THEN <<Head(chain)>> \o chain_insert(assets, Tail(chain), t)
         ELSE <<t>> \o chain

RECURSIVE chain_sorted(_, _)
chain_sorted(assets, ts) ==
    IF ts = << >> THEN << >>
    ELSE chain_insert(assets, chain_sorted(assets, SubSeq(ts, 1, Len(ts) - 1)),
                      ts[Len(ts)])

\* Pipeline.build_chain: the assets, latest maturity first
build_chain(p) ==
    [p EXCEPT !.chain = chain_sorted(p.assets, Filter(TickerOrder, DOMAIN p.assets))]

Returned(value) == [kind |-> "value", value |-> value]
Raised(error) == [kind |-> error, value |-> << >>]
Raises(p) == p.out.kind \in {"ValueError", "IndexError"}

\* list.pop()
Front(seq) == SubSeq(seq, 1, Len(seq) - 1)

\* a roll that leaves an exhausted chain with an empty universe
Rolling_apply_roll_silent(p) ==
    IF p.chain = << >>
    THEN [p EXCEPT !.curr = None, !.universe = << >>, !.maturity = FarDay]
    ELSE LET c == p.chain[Len(p.chain)] IN
         [p EXCEPT !.chain = Front(p.chain), !.curr = c, !.universe = <<c>>,
                   !.maturity = p.assets[c].maturity]

\* Rolling.apply_roll
Rolling_apply_roll(p) ==
    IF p.chain = << >> THEN [p EXCEPT !.out = Raised("ValueError")]
    ELSE LET c == p.chain[Len(p.chain)] IN
         [p EXCEPT !.chain = Front(p.chain), !.curr = c, !.universe = <<c>>,
                   !.maturity = p.assets[c].maturity]

\* Rolling.init
Rolling_init(p) ==
    LET p1 == Rolling_apply_roll(build_chain(p)) IN
    IF Raises(p1) THEN p1 ELSE [p1 EXCEPT !.universe = << >>]

\* Rolling.next: the pipeline and the broker after the call
RECURSIVE Rolling_next(_, _)
Rolling_next(p, b) ==
    IF get_lagged_date(DEFAULT_LAG) > p.maturity
    THEN LET b1 == close(b, p.curr, data.buffer)
             p1 == Rolling_apply_roll(p)
         IN IF Raises(p1) THEN [pipe |-> p1, broker |-> b1]
            ELSE Rolling_next(p1, b1)
    ELSE [pipe |-> [p EXCEPT !.out = Returned(p.universe)], broker |-> b]

\* Vertice.roll_date
roll_date(p) == p.ref_year * YearLen + RollDay

\* Vertice.init
Vertice_init(p) ==
    LET p1 == build_chain(p) IN
    IF p1.chain = << >> THEN [p1 EXCEPT !.out = Raised("IndexError")]
    ELSE LET c == p1.chain[Len(p1.chain)] IN
         [p1 EXCEPT !.curr = c, !.ref_year = year(p1.assets[c].maturity)]

\* an apply_roll that keeps the reference year of the contract it drops
Vertice_apply_roll_stale_year(p) ==
    IF p.chain = << >> THEN [p EXCEPT !.out = Raised("ValueError")]
    ELSE LET rest == Front(p.chain) IN
         IF rest = << >>
         THEN [p EXCEPT !.chain = rest, !.out = Raised("IndexError")]
         ELSE [p EXCEPT !.chain = rest, !.curr = rest[Len(rest)]]

\* Vertice.apply_roll
Vertice_apply_roll(p) ==
    IF p.chain = << >> THEN [p EXCEPT !.out = Raised("ValueError")]
    ELSE LET rest == Front(p.chain) IN
         IF rest = << >>
         THEN [p EXCEPT !.chain = rest, !.out = Raised("IndexError")]
         ELSE LET c == rest[Len(rest)] IN
              [p EXCEPT !.chain = rest, !.curr = c,
                        !.ref_year = year(p.assets[c].maturity)]

\* Vertice.next
RECURSIVE Vertice_next(_, _)
Vertice_next(p, b) ==
    IF get_lagged_date(DEFAULT_LAG) > roll_date(p)
    THEN LET b1 == close(b, p.curr, data.buffer)
             p1 == Vertice_apply_roll(p)
         IN IF Raises(p1) THEN [pipe |-> p1, broker |-> b1]
            ELSE Vertice_next(p1, b1)
    ELSE [pipe |-> [p EXCEPT !.out = Returned(p.chain)], broker |-> b]

\* Portfolio.next: the universe is rebuilt, and the method has no return
\* statement
Portfolio_next(p, b) ==
    LET active == {t \in DOMAIN p.assets :
                      /\ p.assets[t].inception <= Today
                      /\ p.assets[t].maturity >= Today}
    IN [pipe |-> [p EXCEPT !.universe = Filter(TickerOrder, active),
                           !.out = [kind |-> "None", value |-> << >>]],
        broker |-> b]

\* Single.next
Single_next(p, b) ==
    [pipe |-> [p EXCEPT !.out = Returned(p.universe)], broker |-> b]

\* the init of the pipeline's class
pipeline_init(p) ==
    CASE p.kind = "Single" ->
             [p EXCEPT !.universe = Filter(TickerOrder, DOMAIN p.assets)]
      [] p.kind = "Rolling" -> Rolling_init(p)
      [] p.kind = "Vertice" -> Vertice_init(p)
      [] OTHER -> [p EXCEPT !.universe = << >>]

\* the next of the pipeline's class
pipeline_next(p, b) ==
    CASE p.kind = "Single" -> Single_next(p, b)
      [] p.kind = "Rolling" -> Rolling_next(p, b)
      [] p.kind = "Vertice" -> Vertice_next(p, b)
      [] OTHER -> Portfolio_next(p, b)

\* Strategy.get_universe / get_chain: what the strategy trades
Universe(p) == IF p.kind = "Vertice" THEN p.chain ELSE p.universe

Range(seq) == {seq[i] : i \in 1..Len(seq)}


(* ------------------- Backtest.run with a pipeline class ----------------- *)

\* the maturities and inceptions the instruments are configured with: the
\* second and the third date of the run, or the defaults (a date after and
\* a date before every date of the index)
MaturityDays == {Day(DEFAULT_BUFFER + 1), Day(DEFAULT_BUFFER + 2), FarDay}
InceptionDays == {0, Day(DEFAULT_BUFFER + 2)}

\* both instruments are assets of the one pipeline
InitPipe ==
    /\ broker = BrokerInit
    /\ data = DataInit
    /\ cfg \in {c \in Configs : /\ c.hedges
                                /\ c.assets["A"].slippage = DEFAULT_SLIPPAGE
                                /\ c.assets["A"].commission = MaxComm}
    /\ pc = "init"
    /\ steps = << >>
    /\ sync = SyncInit
    /\ rd = RdInit
    /\ \E k \in Kinds :
       \E mat \in [Tickers -> MaturityDays] :
       \E inc \in [Tickers -> IF k = "Portfolio" THEN InceptionDays ELSE {0}] :
          pipe = [PipeInit EXCEPT
                    !.kind = k,
                    !.assets = [t \in Tickers |->
                                  [inception |-> inc[t], maturity |-> mat[t]]]]

\* self.__pipeline.init()
PipeInitCall ==
    /\ pc = "init"
    /\ pipe' = pipeline_init(pipe)
    /\ pc' = IF Raises(pipe') THEN "failed" ELSE "loop"
    /\ UNCHANGED <<broker, data, cfg, steps, sync, rd>>

\* self.__advance_buffers(), the rows of "A" a constant series
PipeAdvance ==
    /\ pc = "loop"
    /\ broker.buffer < Length - 1
    /\ data' = DataNext(FlatBar)
    /\ broker' = broker_next(broker)
    /\ pipe' = [pipe EXCEPT !.main = @ + 1]
    /\ pc' = "bop"
    /\ steps' = <<"advance">>
    /\ UNCHANGED <<cfg, sync, rd>>

\* self.__pipeline.next()
PipeNext ==
    /\ pc = "pipeline"
    /\ LET r == pipeline_next(pipe, broker) IN
          /\ pipe' = r.pipe
          /\ broker' = r.broker
    /\ pc' = IF Raises(pipe') THEN "failed" ELSE "strategy"
    /\ steps' = Append(steps, "pipeline")
    /\ UNCHANGED <<data, cfg, sync, rd>>

\* Strategy.next orders an instrument of the universe, at the market
PipeStrategyOrder ==
    /\ pc = "strategy"
    /\ Len(broker.heap) < MaxOrders
    /\ \E t \in Range(Universe(pipe)), size \in Sizes :
          broker' = new_order(broker, t, size, NoNumber, data.buffer)
    /\ UNCHANGED <<data, cfg, pc, steps, sync, rd, pipe>>

\* Strategy.next returns; no hedge pipeline was configured
PipeStrategyReturn ==
    /\ pc = "strategy"
    /\ pc' = "eop"
    /\ steps' = Append(steps, "strategy")
    /\ UNCHANGED <<broker, data, cfg, sync, rd, pipe>>

NextPipe ==
    \/ PipeInitCall
    \/ PipeAdvance
    \/ RunDone
    \/ RunBop
    \/ PipeNext
    \/ PipeStrategyOrder
    \/ PipeStrategyReturn
    \/ RunEop

SpecPipe == InitPipe /\ [][NextPipe]_vars


(* ---- C11 ---- *)

\* C11: every Rolling.next() that returns, returns the one-element universe
\* [current contract], the contract apply_roll adopted last.
C11_RollingUniverse ==
    (pipe.kind = "Rolling" /\ pipe.out.kind = "value")
        => pipe.out.value = <<pipe.curr>>

(* ---- C12 ---- *)

\* a roll is due and the chain has no contract left
Exhausted ==
    /\ pipe.kind = "Rolling"
    /\ pc = "pipeline"
    /\ get_lagged_date(DEFAULT_LAG) > pipe.maturity
    /\ pipe.chain = << >>

RollingExhausted ==
    Exhausted => /\ pipe'.out.kind = "ValueError"
                 /\ pc' = "failed"

\* C12: Rolling.next() called when the lag-adjusted date is past the
\* current maturity and the chain is empty raises; it returns no universe
\* and the run does not go on to the strategy.
C12_RollingExhausted == [][RollingExhausted]_vars

C12_Witness ==
    /\ pipe.kind = "Rolling"
    /\ pipe.out.kind = "ValueError"
    /\ pipe.chain = << >>
    /\ pc = "failed"
    /\ get_lagged_date(DEFAULT_LAG) > pipe.maturity


(* --------------------------- Ranking pipelines -------------------------- *)

\* weeks of the calendar the ranking pipelines run over
RankWeeks == 2
RankLength == 5 * RankWeeks
\* DEF_N of the modelled runs
DEFAULT_N == 2
\* the length of the issuer prefix, ticker[:4]
PrefixLen == 4
\* volatilities and indicators range over 1..MaxRow
MaxRow == 2
\* float("nan")
NaN == 0 - 1

RankKinds == {"Ranking", "VA_Ranking"}
RankTickers == <<"PETR3", "PETR4", "VALE3">>

\* the characters of a ticker
Spelling(ticker) ==
    CASE ticker = "PETR3" -> <<"P", "E", "T", "R", "3">>
      [] ticker = "PETR4" -> <<"P", "E", "T", "R", "4">>
      [] ticker = "VALE3" -> <<"V", "A", "L", "E", "3">>
      [] OTHER -> <<ticker>>

\* ticker[:4]
issuer(ticker) ==
    SubSeq(Spelling(ticker), 1, Min(PrefixLen, Len(Spelling(ticker))))

\* the values of an instrument's lines on a date.  tradable: the inception,
\* maturity, liquidity and volatility tests of the `actives` comprehension
Rows == [tradable : BOOLEAN, volatility : 1..MaxRow,
         indicator : {NaN} \cup (1..MaxRow)]

\* key(x) <= key(y) of the sort: the indicator, or the indicator over the
\* volatility
key_le(kind, x, y) ==
    IF kind = "VA_Ranking"
    THEN x.indicator * y.volatility <= y.indicator * x.volatility
    ELSE x.indicator <= y.indicator

\* an insertion that sorts in descending order of the key
RECURSIVE rank_insert_descending(_, _, _, _)
rank_insert_descending(kind, rows, rank, t) ==
    IF rank = << >> THEN <<t>>
    ELSE IF key_le(kind, rows[t], rows[Head(rank)])
         THEN <<Head(rank)>> \o rank_insert_descending(kind, rows, Tail(rank), t)
         ELSE <<t>> \o rank

\* sorted(..., key): ascending and stable
RECURSIVE rank_insert(_, _, _, _)
rank_insert(kind, rows, rank, t) ==
    IF rank = << >> THEN <<t>>
    ELSE IF key_le(kind, rows[Head(rank)], rows[t])
         THEN <<Head(rank)>> \o rank_insert(kind, rows, Tail(rank), t)
         ELSE <<t>> \o rank

RECURSIVE rank_sorted(_, _, _)
rank_sorted(kind, rows, ts) ==
    IF ts = << >> THEN << >>
    ELSE rank_insert(kind, rows, rank_sorted(kind, rows, Front(ts)), ts[Len(ts)])

\* a selection that takes the best ranked whatever their issuers
RECURSIVE rank_select_any(_, _, _, _)
rank_select_any(n, tmp, unv, names) ==
    IF Len(unv) < n /\ tmp # << >>
    THEN LET ticker == tmp[Len(tmp)] IN
         rank_select_any(n, Front(tmp), Append(unv, ticker), names)
    ELSE unv

\* while len(unv) < self.n and tmp: ...
RECURSIVE rank_select(_, _, _, _)
rank_select(n, tmp, unv, names) ==
    IF Len(unv) < n /\ tmp # << >>
    THEN LET ticker == tmp[Len(tmp)]
             name == issuer(ticker)
         IN IF name \notin names
            THEN rank_select(n, Front(tmp), Append(unv, ticker), names \cup {name})
            ELSE rank_select(n, Front(tmp), unv, names)
    ELSE unv

\* a loop that closes every instrument of the previous universe
RECURSIVE close_dropped_all(_, _, _)
close_dropped_all(b, old, unv) ==
    IF old = << >> THEN b
    ELSE close_dropped_all(close(b, Head(old), data.buffer), Tail(old), unv)

\* for asset in self.universe: if asset not in unv: self.broker.close(asset)
RECURSIVE close_dropped(_, _, _)
close_dropped(b, old, unv) ==
    IF old = << >> THEN b
    ELSE IF Head(old) \in Range(unv) THEN close_dropped(b, Tail(old), unv)
         ELSE close_dropped(close(b, Head(old), data.buffer), Tail(old), unv)

\* Ranking.init and VA_Ranking.init, called without n
Ranking_init(p) == [p EXCEPT !.universe = << >>, !.n = DEFAULT_N]

\* self.assets.values(): the instruments in the order they were added
assets_values(p) == Filter(TickerOrder \o RankTickers, DOMAIN p.assets)

\* a next that rebalances on every date
Ranking_next_every_date(p, b, rows) ==
    LET actives == {t \in DOMAIN p.assets : rows[t].tradable}
        ranked == Filter(assets_values(p),
                     {t \in actives : rows[t].indicator # NaN})
        rank == rank_sorted(p.kind, rows, ranked)
        unv == rank_select(p.n, rank, << >>, {})
    IN [pipe |-> [p EXCEPT !.actives = actives, !.rank = rank,
                           !.universe = unv, !.out = Returned(unv)],
        broker |-> close_dropped(b, p.universe, unv)]

\* Ranking.next and VA_Ranking.next, on a date whose rows are `rows`
Ranking_next(p, b, rows) ==
    IF weekday(Today) > weekday(get_lagged_date(1))
    THEN LET actives == {t \in DOMAIN p.assets : rows[t].tradable}
             ranked == Filter(assets_values(p),
                          {t \in actives : rows[t].indicator # NaN})
             rank == rank_sorted(p.kind, rows, ranked)
             unv == rank_select(p.n, rank, << >>, {})
         IN [pipe |-> [p EXCEPT !.actives = actives, !.rank = rank,
                                !.universe = unv, !.out = Returned(unv)],
             broker |-> close_dropped(b, p.universe, unv)]
    ELSE [pipe |-> [p EXCEPT !.out = Returned(p.universe)], broker |-> b]

InitRank ==
    /\ broker = Broker_init(RankLength)
    /\ data = DataInit
    /\ cfg \in {c \in Configs : /\ c.hedges
                                /\ c.assets["A"].slippage = DEFAULT_SLIPPAGE
                                /\ c.assets["A"].commission = MaxComm}
    /\ pc = "init"
    /\ steps = << >>
    /\ sync = SyncInit
    /\ rd = RdInit
    /\ \E k \in RankKinds :
          pipe = [PipeInit EXCEPT
                    !.kind = k,
                    !.assets = [t \in Range(RankTickers) |->
                                  [inception |-> 0, maturity |-> FarDay]]]

\* self.__pipeline.init()
RankInitCall ==
    /\ pc = "init"
    /\ pipe' = Ranking_init(pipe)
    /\ pc' = "loop"
    /\ UNCHANGED <<broker, data, cfg, steps, sync, rd>>

\* self.__advance_buffers()
RankAdvance ==
    /\ pc = "loop"
    /\ pipe.main < RankLength - 1
    /\ data' = DataNext(FlatBar)
    /\ broker' = broker_next(broker)
    /\ pipe' = [pipe EXCEPT !.main = @ + 1]
    /\ pc' = "pipeline"
    /\ UNCHANGED <<cfg, steps, sync, rd>>

\* self.__pipeline.next()
RankNext ==
    /\ pc = "pipeline"
    /\ \E rows \in [Range(RankTickers) -> Rows] :
          LET r == Ranking_next(pipe, broker, rows) IN
             /\ pipe' = r.pipe
             /\ broker' = r.broker
    /\ pc' = "loop"
    /\ UNCHANGED <<data, cfg, steps, sync, rd>>

NextRank ==
    \/ RankInitCall
    \/ RankAdvance
    \/ RankNext

SpecRank == InitRank /\ [][NextRank]_vars

(* ---- C13 ---- *)

AtMostN(unv) == Len(unv) <= pipe.n

OneOfEachIssuer(unv) ==
    \A i, j \in 1..Len(unv) : i # j => issuer(unv[i]) # issuer(unv[j])

\* C13: the universe Ranking.next() and VA_Ranking.next() return never has
\* more than the configured N instruments, and no two of its tickers have
\* the same first four characters.
C13_RankingUniverse ==
    (pipe.kind \in RankKinds /\ pipe.out.kind = "value")
        => /\ AtMostN(pipe.out.value)
           /\ OneOfEachIssuer(pipe.out.value)
           /\ pipe.out.value = pipe.universe

C13_Witness ==
    /\ pipe.kind \in RankKinds
    /\ pipe.main = RankLength - 1
    /\ pipe.out.kind = "value"
    /\ Len(pipe.out.value) = pipe.n
    /\ Len(pipe.rank) = Len(RankTickers)
    /\ issuer(pipe.rank[Len(pipe.rank)]) = issuer(pipe.rank[Len(pipe.rank) - 1])


(* ---- C14 ---- *)

RECURSIVE OvernightOver(_, _)
OvernightOver(b, S) ==
    IF S = {} THEN 0
    ELSE LET t == CHOOSE y \in S : TRUE IN
         b.opnl[t] + b.cpnl[t] + OvernightOver(b, S \ {t})

\* the overnight mark-to-market and the carry of a held position
OvernightOf(t) ==
    LET size == broker.positions[t]
        a == cfg.assets[t]
        f == Factor(a, data)
    IN [opnl |-> size * (data.bar[t].open - data.last[t]) * f * Unit,
        cpnl |-> IF cashlike(a)
                 THEN 0 - size * f * data.last[t] * DEFAULT_CRATE * Den
                 ELSE 0]

BopFrame ==
    (pc = "bop" /\ broker.orders = << >>) =>
        LET i == broker.buffer
            held == DOMAIN broker.positions
        IN /\ broker'.positions = broker.positions
           /\ broker'.executed = broker.executed
           /\ broker'.cancels = broker.cancels
           /\ broker'.orders = << >>
           /\ broker'.heap = broker.heap
           /\ broker'.raised = None
           /\ \A t \in held : /\ broker'.opnl[t] = OvernightOf(t).opnl
                              /\ broker'.cpnl[t] = OvernightOf(t).cpnl
           /\ \A t \in Tickers \ held : broker'.opnl[t] = 0 /\ broker'.cpnl[t] = 0
           /\ broker'.tpnl = ZeroPnl /\ broker'.ipnl = ZeroPnl
           /\ broker'.equity[i] - broker'.equity[i - 1]
                 = OvernightOver(broker', held)
           /\ broker'.open[i] = broker'.equity[i]
           /\ broker'.cash[i] - broker'.cash[i - 1]
                 = OvernightOver(broker', held)
                     - OvernightOver([broker' EXCEPT !.cpnl = ZeroPnl],
                                     {t \in held : cfg.assets[t].stocklike})
           /\ \A j \in DOMAIN broker.equity :
                 j # i => /\ broker'.equity[j] = broker.equity[j]
                          /\ broker'.open[j] = broker.open[j]
                          /\ broker'.cash[j] = broker.cash[j]

\* C14: beg_of_period with an empty order book leaves the positions and
\* the executed and cancelled lists as they were, and moves the ledger of
\* the date from the previous date's by the overnight mark-to-market and
\* the carry of the held positions: equity[0] - equity[-1] is the sum of
\* opnl + cpnl over them.
C14_BopFrame == [][BopFrame]_vars

C14_Witness ==
    /\ AfterBop
    /\ \A id \in Ids(broker) :
          \/ broker.heap[id].status = STATUS.CANC
          \/ /\ broker.heap[id].status = STATUS.EXEC
             /\ broker.heap[id].exec_date < data.buffer
    /\ \E t \in DOMAIN broker.positions :
          /\ broker.positions[t] # 0
          /\ broker.opnl[t] # 0
          /\ broker.cpnl[t] # 0


(* ------------------ Strategy.sizing and order_target ------------------- *)

\* DEF_THRESH of the modelled runs, numerator over Den
DEFAULT_THRESH == 2
\* DEF_MIN_SIZE
DEFAULT_MIN_SIZE == 1
\* vol_target / vol_asset on a date, numerators over Den
TexpoValues == {3, 5, 8}

\* math.floor and math.ceil of num / den, den > 0
floor(num, den) == num \div den
ceil(num, den) == 0 - ((0 - num) \div den)

\* the size before rounding, signal * texpo * equity / price, as the
\* fraction num / den
raw_size(b, ticker, signal, texpo) ==
    [num |-> signal * texpo * b.equity[b.buffer - 1],
     den |-> Den * Unit * data.bar[ticker].close * Factor(cfg.assets[ticker], data)]

\* a sizing that takes the floor of a negative size too
sizing_lot_floor(b, ticker, signal, texpo, min_size) ==
    LET raw == raw_size(b, ticker, signal, texpo)
    IN IF raw.num # 0 THEN min_size * floor(raw.num, raw.den * min_size)
       ELSE 0

\* Strategy.sizing with its min_size argument
sizing_lot(b, ticker, signal, texpo, min_size) ==
    LET raw == raw_size(b, ticker, signal, texpo)
    IN IF raw.num > 0 THEN min_size * floor(raw.num, raw.den * min_size)
       ELSE IF raw.num < 0 THEN min_size * ceil(raw.num, raw.den * min_size)
       ELSE 0

\* Strategy.sizing: signal * texpo * equity / price, rounded towards zero
\* to a multiple of the default min_size
sizing(b, ticker, signal, texpo) ==
    sizing_lot(b, ticker, signal, texpo, DEFAULT_MIN_SIZE)

\* an order_target that also skips a change equal to the threshold
order_target_strict(b, ticker, target) ==
    LET current == IF ticker \in DOMAIN b.positions THEN b.positions[ticker] ELSE 0
        delta == target - current
    IN IF target = current THEN b
       ELSE IF /\ current # 0
               /\ DEFAULT_THRESH > 0
               /\ Abs(delta) * Den <= DEFAULT_THRESH * Abs(current)
            THEN b
            ELSE new_order(b, ticker, delta, NoNumber, data.buffer)

\* Strategy.order_target with the default threshold and no limit
order_target(b, ticker, target) ==
    LET current == IF ticker \in DOMAIN b.positions THEN b.positions[ticker] ELSE 0
        delta == target - current
    IN IF target = current THEN b
       ELSE IF /\ current # 0
               /\ DEFAULT_THRESH > 0
               /\ Abs(delta) * Den < DEFAULT_THRESH * Abs(current)
            THEN b
            ELSE new_order(b, ticker, delta, NoNumber, data.buffer)

(* ------ one stock-like instrument, constant prices, signal +1 ----------- *)

\* add_asset("A", ...) alone, with slippage 0 and commission 0 given: the
\* commission kept is the DEF_SCOMM of the environment
InitFlat ==
    /\ broker = BrokerInit
    /\ data = DataInit
    /\ cfg \in {c \in Configs : /\ ~c.hedges
                                /\ c.assets["A"].slippage = 0}
    /\ pc = "init"
    /\ steps = << >>
    /\ sync = SyncInit
    /\ rd = RdInit
    /\ pipe = [PipeInit EXCEPT
                 !.kind = "Single",
                 !.assets = [t \in {"A"} |-> [inception |-> 0, maturity |-> FarDay]]]

\* Strategy.next as in examples/single_receipts.py: for every asset of the
\* universe, order_target(asset, target = sizing(asset)), the signal +1
FlatStrategyNext ==
    /\ pc = "strategy"
    /\ \E texpo \in TexpoValues :
          broker' = order_target(broker, "A", sizing(broker, "A", 1, texpo))
    /\ pc' = "eop"
    /\ steps' = Append(steps, "strategy")
    /\ UNCHANGED <<data, cfg, sync, rd, pipe>>

NextFlat ==
    \/ PipeInitCall
    \/ PipeAdvance
    \/ RunDone
    \/ RunBop
    \/ PipeNext
    \/ FlatStrategyNext
    \/ RunEop

SpecFlat == InitFlat /\ [][NextFlat]_vars

(* ---- C15 ---- *)

\* C15: with one stock-like instrument at a constant price, signal +1,
\* commission 0 and slippage 0 given, the equity of every date after the
\* first execution is the initial cash.
C15_FlatEquity ==
    (AfterEop /\ broker.executed # << >>)
        => broker.equity[broker.buffer] = DEFAULT_CASH * Unit


(* ---- C16 ---- *)

\* a beg_of_period that executes an order and leaves the cash of the date
\* negative ends in an exception
NegativeCashRaises ==
    (/\ pc = "bop"
     /\ Len(broker'.executed) > Len(broker.executed)
     /\ broker'.cash[broker'.buffer] < 0)
        => broker'.raised # None

\* C16: an execution that would make cash[0] negative is reported as a
\* fatal policy violation; it never completes leaving cash[0] below zero.
C16_NegativeCashRaises == [][NegativeCashRaises]_vars


(* ---- C17 ---- *)

\* a beg_of_period or end_of_period that raises leaves the Broker as it was
\* before the call: ledger, PnL accumulators, positions, order book, orders
RaisingCallRollsBack ==
    (/\ pc \in {"bop", "eop"}
     /\ broker'.raised # None)
        => broker' = [broker EXCEPT !.raised = broker'.raised]

\* C17: beg_of_period and end_of_period are atomic: when either raises
\* part-way, the ledger at the cursor, the PnL accumulators, the position
\* book and the order book are what they were before the call.
C17_RaisingCallRollsBack == [][RaisingCallRollsBack]_vars


(* ---- C18 ---- *)

\* the size held in an instrument, 0 when the book has no position for it
HeldSize(b, ticker) == IF ticker \in DOMAIN b.positions THEN b.positions[ticker] ELSE 0

\* the order book holds a Waiting order that flattens the position
FlattenAsked(b, ticker, size) ==
    \E i \in 1..Len(b.orders) :
        LET o == b.heap[b.orders[i]]
        IN /\ o.ticker = ticker
           /\ o.size = 0 - size
           /\ o.status = "WAITING"

\* the instruments a returning next() drops from the universe while held
Dropped ==
    {t \in Range(Universe(pipe)) \ Range(Universe(pipe')) : HeldSize(broker, t) # 0}

DroppedAreFlattened ==
    (pc = "pipeline" /\ ~Raises(pipe'))
        => \A t \in Dropped : FlattenAsked(broker', t, HeldSize(broker, t))

\* C18: for every pipeline, an instrument held and in the universe after
\* the previous next(), and not in it after this one, has a Waiting order
\* of size -position.size in the book when next() returns.
C18_DroppedAreFlattened == [][DroppedAreFlattened]_vars


(* ---- C19 ---- *)

\* the configured instruments alive on the current date
Alive == {t \in DOMAIN pipe.assets : /\ pipe.assets[t].inception <= Today
                                     /\ pipe.assets[t].maturity >= Today}

\* C19: on every date Portfolio.next() returns exactly the configured
\* instruments with inception <= today <= maturity, the same collection it
\* stores as the universe.
C19_PortfolioReturnsAlive ==
    (pipe.kind = "Portfolio" /\ pipe.out.kind # "uncalled")
        => /\ pipe.out.kind = "value"
           /\ Range(pipe.out.value) = Alive
           /\ pipe.out.value = pipe.universe


(* ---- C20 ---- *)

\* the roll date of the year a contract matures in
RollDateOf(ticker) == year(pipe.assets[ticker].maturity) * YearLen + RollDay

\* the positions of the chain a Vertice.next() call removes
Rolled == (Len(pipe'.chain) + 1)..Len(pipe.chain)

VerticeRolls ==
    (pc = "pipeline" /\ pipe.kind = "Vertice") =>
        \* only contracts at the short end of the chain are removed
        /\ Len(pipe'.chain) <= Len(pipe.chain)
        /\ pipe'.chain = SubSeq(pipe.chain, 1, Len(pipe'.chain))
        \* each one because its roll was due, and after a flatten request
        /\ \A i \in Rolled :
              /\ get_lagged_date(DEFAULT_LAG)' > RollDateOf(pipe.chain[i])
              /\ HeldSize(broker, pipe.chain[i]) # 0
                    => FlattenAsked(broker', pipe.chain[i],
                                    HeldSize(broker, pipe.chain[i]))
        \* a returning call returns the remaining chain, with no roll due
        /\ ~Raises(pipe') =>
              /\ pipe'.out = Returned(pipe'.chain)
              /\ pipe'.chain # << >>
              /\ pipe'.curr = pipe'.chain[Len(pipe'.chain)]
              /\ pipe'.ref_year = year(pipe'.assets[pipe'.curr].maturity)
              /\ get_lagged_date(DEFAULT_LAG)' <= RollDateOf(pipe'.curr)
        \* a raising call is a roll that found no further contract
        /\ Raises(pipe') =>
              /\ pipe'.chain = << >>
              /\ Rolled # {}

C21_ZeroSizeNoOp ==
    \A t \in Tickers, limit \in Limits :
        new_order(broker, t, 0, limit, data.buffer) = broker

\* the last call was a new_order that stored nothing, made while an order
\* of an earlier date was waiting in the book
C21_Witness ==
    /\ steps # << >>
    /\ Last(steps) = "new_order"
    /\ broker.orders # << >>
    /\ \A id \in Ids(broker) : broker.heap[id].issue_date < data.buffer
    /\ \E i \in 1..Len(broker.orders) :
          broker.heap[broker.orders[i]].status = STATUS.WAIT


(* ---- C22 ---- *)

\* the fill rule of a limit order on the bar of its instrument
Feasible(o, bar) ==
    /\ o.limit # NoNumber
    /\ IF o.side = 1 THEN o.limit >= bar.low ELSE o.limit <= bar.high

\* the orders of the book whose limit is feasible on the current bar
FeasibleLimits ==
    {id \in Range(broker.orders) :
        Feasible(broker.heap[id], data.bar[broker.heap[id].ticker])}

FeasibleLimitExecutes ==
    pc = "bop" =>
        \A id \in FeasibleLimits :
            /\ broker'.raised = None
            /\ broker'.heap[id].status = STATUS.EXEC
            /\ id \in Range(broker'.executed)

\* C22: a buy limit order fills iff limit >= low[0] and a sell limit order
\* iff limit <= high[0], at the limit price rule with the slippage applied;
\* a feasible limit order is executed by beg_of_period like a market order
\* (position updated, status Executed).
C22_FeasibleLimitExecutes == [][FeasibleLimitExecutes]_vars


(* ---------------- Backtest.add_asset and Asset.config ------------------ *)

\* _CURR, the recognised currencies of the modelled runs
CURR == {"BRL", "USD"}
CurrencyArgs == CURR \cup {"XXX"}
\* slippage arguments, numerators over Den: below 0, inside [0, 1], above 1
SlippageArgs == {0 - 1, 0, DEFAULT_SLIPPAGE, Den, Den + 1}
MaturityArgs == MaturityDays

\* Asset.config with its validation: a ValueError, or the Asset kept.  The
\* statement that builds the error about the missing maturity of a
\* future-like instrument has no `raise`.  The ticker stands for one that
\* derive_asset accepts; Asset_init applies derive_asset to a spelled ticker.
Asset_config(ticker, commission, multiplier, maturity, slippage, currency, envcomm) ==
    IF slippage < 0 \/ slippage > Den
    THEN [kind |-> "ValueError", asset |-> None]
    ELSE IF currency \notin CURR
    THEN [kind |-> "ValueError", asset |-> None]
    ELSE [kind |-> "asset",
          asset |-> [maturity |-> maturity] @@
                    AssetConfig(ticker, commission, multiplier, slippage,
                                currency, envcomm)]

\* a Backtest just constructed: no asset added yet
InitSetup ==
    /\ broker = BrokerInit
    /\ data = DataInit
    /\ cfg = [assets |-> [t \in {} |-> None], hedges |-> FALSE]
    /\ pc = "setup"
    /\ steps = << >>
    /\ sync = SyncInit
    /\ rd = RdInit
    /\ pipe = PipeInit

\* Backtest.add_asset: Asset(...) is constructed and stored under its
\* ticker; an exception of the constructor ends the set-up
BacktestAddAsset ==
    /\ pc = "setup"
    /\ \E t \in Tickers \ DOMAIN cfg.assets,
          c \in CommValues, e \in {MaxComm},
          mult \in {NoNumber, MultB},
          mat \in MaturityArgs,
          slip \in SlippageArgs,
          cur \in CurrencyArgs :
          LET r == Asset_config(t, c, mult, mat, slip, cur, e) IN
          IF r.kind = "asset"
          THEN /\ cfg' = [cfg EXCEPT !.assets = pos_put(@, t, r.asset)]
               /\ pc' = "setup"
               /\ steps' = Append(steps, "add_asset")
          ELSE /\ cfg' = cfg
               /\ pc' = "failed"
               /\ steps' = Append(steps, r.kind)
    /\ UNCHANGED <<broker, data, sync, rd, pipe>>

NextSetup == BacktestAddAsset

SpecSetup == InitSetup /\ [][NextSetup]_vars

(* ---- C23 ---- *)

\* C23: a future-like instrument without a maturity, a slippage outside
\* [0, 1] or an unrecognised currency is rejected at set-up: no such Asset
\* becomes available to the run.
C23_AssetsAreValid ==
    \A t \in DOMAIN cfg.assets :
        LET a == cfg.assets[t] IN
        /\ a.slippage >= 0 /\ a.slippage <= Den
        /\ a.currency \in CURR
        /\ ~a.stocklike => a.maturity # FarDay


(* --------------- Backtest.run with a ranking pipeline ------------------ *)

\* the rows of the ranked instruments in these runs: one volatility, an
\* indicator that is a number
RunRows == [tradable : BOOLEAN, volatility : {1}, indicator : 1..MaxRow]

\* a Backtest over "A" and "B" with a ranking pipeline, its calendar two
\* weeks long
InitRankRun ==
    /\ broker = Broker_init(RankLength)
    /\ data = DataInit
    /\ cfg \in {c \in Configs : /\ c.hedges
                                /\ c.assets["A"].slippage = DEFAULT_SLIPPAGE
                                /\ c.assets["A"].commission = MaxComm}
    /\ pc = "init"
    /\ steps = << >>
    /\ sync = SyncInit
    /\ rd = RdInit
    /\ \E k \in RankKinds :
          pipe = [PipeInit EXCEPT
                    !.kind = k,
                    !.assets = [t \in Tickers |->
                                  [inception |-> 0, maturity |-> FarDay]]]

\* self.__advance_buffers()
RankRunAdvance ==
    /\ pc = "loop"
    /\ pipe.main < RankLength - 1
    /\ data' = DataNext(FlatBar)
    /\ broker' = broker_next(broker)
    /\ pipe' = [pipe EXCEPT !.main = @ + 1]
    /\ pc' = "bop"
    /\ steps' = <<"advance">>
    /\ UNCHANGED <<cfg, sync, rd>>

\* the loop condition fails
RankRunDone ==
    /\ pc = "loop"
    /\ ~(pipe.main < RankLength - 1)
    /\ pc' = "done"
    /\ UNCHANGED <<broker, data, cfg, steps, sync, rd, pipe>>

\* self.__pipeline.next()
RankRunNext ==
    /\ pc = "pipeline"
    /\ \E rows \in [DOMAIN pipe.assets -> RunRows] :
          LET r == Ranking_next(pipe, broker, rows) IN
             /\ pipe' = r.pipe
             /\ broker' = r.broker
    /\ pc' = "strategy"
    /\ steps' = Append(steps, "pipeline")
    /\ UNCHANGED <<data, cfg, sync, rd>>

NextRankRun ==
    \/ RankInitCall
    \/ RankRunAdvance
    \/ RankRunDone
    \/ RunBop
    \/ RankRunNext
    \/ PipeStrategyOrder
    \/ PipeStrategyReturn
    \/ RunEop

SpecRankRun == InitRankRun /\ [][NextRankRun]_vars


(* ---- C24 ---- *)

\* today is the last working day of its week: the next working day has a
\* smaller weekday
WeekBoundary == weekday(Today) > weekday(workday(Today, 1))

OffBoundaryKeeps ==
    (pc = "pipeline" /\ pipe.kind \in RankKinds /\ ~WeekBoundary)
        => /\ pipe'.universe = pipe.universe
           /\ pipe'.out = Returned(pipe.universe)
           /\ pipe'.actives = pipe.actives
           /\ pipe'.rank = pipe.rank
           /\ broker' = broker

\* C24: Ranking.next() and VA_Ranking.next() rebalance only on a date whose
\* weekday is greater than the weekday of the next working day; on every
\* other date the call returns the stored universe unchanged and submits no
\* order to the Broker.
C24_OffBoundaryKeeps == [][OffBoundaryKeeps]_vars

\* a next() has returned off the week boundary, with a universe selected
\* and a position held in it
C24_Witness ==
    /\ pipe.kind \in RankKinds
    /\ pc = "strategy"
    /\ ~WeekBoundary
    /\ pipe.out.kind = "value"
    /\ \E t \in Range(pipe.universe) : HeldSize(broker, t) # 0

(* ---- C25 ---- *)

\* the orders of an instrument in the book: one, or none
Pending(b, ticker) ==
    LET i == BookIndex(b, ticker) IN
    IF i = 0 THEN << >> ELSE <<b.heap[b.orders[i]]>>

RebalanceFlattens ==
    (pc = "pipeline" /\ pipe.kind \in RankKinds /\ WeekBoundary)
        => \A t \in Range(pipe.universe) :
              /\ (t \notin Range(pipe'.universe) /\ HeldSize(broker, t) # 0)
                    => FlattenAsked(broker', t, HeldSize(broker, t))
              /\ t \in Range(pipe'.universe)
                    => Pending(broker', t) = Pending(broker, t)

\* C25: on a Ranking rebalance every instrument of the previous universe
\* that is not in the new selection and is held gets a flatten order of
\* size -position.size, and the instruments that stay selected get none.
C25_RebalanceFlattens == [][RebalanceFlattens]_vars

\* a rebalance has dropped a held instrument and kept another held one
C25_Witness ==
    /\ pipe.kind \in RankKinds
    /\ pc = "strategy"
    /\ WeekBoundary
    /\ \E t \in DOMAIN pipe.assets \ Range(pipe.universe) :
          /\ HeldSize(broker, t) # 0
          /\ FlattenAsked(broker, t, HeldSize(broker, t))
    /\ \E u \in Range(pipe.universe) :
          /\ HeldSize(broker, u) # 0
          /\ Pending(broker, u) = << >>


(* ------------- the ranking selection on the rows of a date -------------- *)

\* the n given to init: none, or a number
RankSizes == {NoNumber, 1}

\* Ranking.init(n) and VA_Ranking.init(n)
Ranking_init_n(p, n) ==
    [p EXCEPT !.universe = << >>, !.n = IF n = NoNumber THEN DEFAULT_N ELSE n]

\* a ranking pipeline over the three stocks, whose lines have the same row
\* on every date
InitSelect ==
    /\ broker = Broker_init(RankLength)
    /\ \E rows \in [Range(RankTickers) -> Rows] : data = [rows |-> rows] @@ DataInit
    /\ cfg \in {c \in Configs : /\ c.hedges
                                /\ c.assets["A"].slippage = DEFAULT_SLIPPAGE
                                /\ c.assets["A"].commission = MaxComm}
    /\ pc = "init"
    /\ steps = << >>
    /\ sync = SyncInit
    /\ rd = RdInit
    /\ \E k \in RankKinds :
          pipe = [PipeInit EXCEPT
                    !.kind = k,
                    !.assets = [t \in Range(RankTickers) |->
                                  [inception |-> 0, maturity |-> FarDay]]]

\* pipeline.init(n)
SelectInitCall ==
    /\ pc = "init"
    /\ \E n \in RankSizes : pipe' = Ranking_init_n(pipe, n)
    /\ pc' = "loop"
    /\ UNCHANGED <<broker, data, cfg, steps, sync, rd>>

\* the main line moves to the next date
SelectAdvance ==
    /\ pc = "loop"
    /\ pipe.main < RankLength - 1
    /\ pipe' = [pipe EXCEPT !.main = @ + 1]
    /\ broker' = broker_next(broker)
    /\ pc' = "pipeline"
    /\ UNCHANGED <<data, cfg, steps, sync, rd>>

\* pipeline.next()
SelectNext ==
    /\ pc = "pipeline"
    /\ LET r == Ranking_next(pipe, broker, data.rows) IN
          /\ pipe' = r.pipe
          /\ broker' = r.broker
    /\ pc' = "loop"
    /\ UNCHANGED <<data, cfg, steps, sync, rd>>

NextSelect ==
    \/ SelectInitCall
    \/ SelectAdvance
    \/ SelectNext

SpecSelect == InitSelect /\ [][NextSelect]_vars

(* ---- C26 ---- *)

\* the instruments that pass the tests of the rebalance
Eligible ==
    {t \in DOMAIN pipe.assets : /\ data.rows[t].tradable
                                /\ data.rows[t].indicator # NaN}

\* s ranks at least as well as e
RanksNoWorse(s, e) == key_le(pipe.kind, data.rows[e], data.rows[s])

Selected == Range(pipe.universe)

\* a next() that rebalanced has just returned
Rebalanced == pipe.out.kind = "value" /\ pc = "loop" /\ WeekBoundary

\* C26: the selection is greedy best-first over the eligible instruments:
\* the instrument selected of an issuer prefix is the best-ranked eligible
\* one of that prefix, and every eligible instrument left out shares its
\* prefix with a better-ranked selected one or ranks below all N selected.
C26_GreedySelection ==
    Rebalanced =>
        /\ Selected \subseteq Eligible
        /\ \A s \in Selected : \A e \in Eligible :
              issuer(e) = issuer(s) => RanksNoWorse(s, e)
        /\ \A e \in Eligible \ Selected :
              \/ \E s \in Selected : issuer(s) = issuer(e) /\ RanksNoWorse(s, e)
              \/ /\ Len(pipe.universe) = pipe.n
                 /\ \A s \in Selected : RanksNoWorse(s, e)

\* a rebalance has left out one instrument for its prefix and another for
\* its rank
C26_Witness ==
    /\ Rebalanced
    /\ Len(pipe.universe) = pipe.n
    /\ \E e \in Eligible \ Selected :
          \E s \in Selected : issuer(s) = issuer(e)
    /\ \E e \in Eligible \ Selected :
          \A s \in Selected : issuer(s) # issuer(e)


(* ---- C27 ---- *)

MaturityOf(ticker) == pipe.assets[ticker].maturity

\* a Rolling.next() call rolled: it adopted a contract or found none left
RollingRolled == Len(pipe'.chain) < Len(pipe.chain) \/ Raises(pipe')

\* the contracts a Rolling.next() call rolled away from
RolledAway ==
    IF RollingRolled
    THEN {pipe.curr} \cup {pipe.chain[i] : i \in (Len(pipe'.chain) + 2)..Len(pipe.chain)}
    ELSE {}

RollingRolls ==
    (pc = "pipeline" /\ pipe.kind = "Rolling") =>
        \* contracts leave the chain from its end, and none comes back
        /\ pipe'.chain = SubSeq(pipe.chain, 1, Len(pipe'.chain))
        /\ pipe.curr \notin Range(pipe.chain)
        /\ pipe'.curr \notin Range(pipe'.chain)
        \* the contracts not yet adopted mature no earlier than the current
        /\ \A c \in Range(pipe.chain) : MaturityOf(c) >= MaturityOf(pipe.curr)
        /\ \A c \in Range(pipe'.chain) : MaturityOf(c) >= MaturityOf(pipe'.curr)
        /\ MaturityOf(pipe'.curr) >= MaturityOf(pipe.curr)
        \* a returning call leaves a contract that has not reached its roll
        /\ ~Raises(pipe') =>
              /\ pipe'.maturity = MaturityOf(pipe'.curr)
              /\ get_lagged_date(DEFAULT_LAG)' <= pipe'.maturity
              /\ RollingRolled =>
                    /\ pipe'.curr = pipe.chain[Len(pipe'.chain) + 1]
                    /\ pipe'.curr # pipe.curr
        \* every contract rolled away was closed
        /\ \A t \in RolledAway :
              /\ get_lagged_date(DEFAULT_LAG)' > MaturityOf(t)
              /\ HeldSize(broker, t) # 0
                    => FlattenAsked(broker', t, HeldSize(broker, t))

\* C27: Rolling adopts the contracts in ascending order of maturity, each
\* at most once; when Rolling.next() returns, the lag-adjusted date is not
\* past the maturity of the current contract, and every contract rolled
\* away in the call was sent a Broker.close before its successor was
\* adopted.
C27_RollingRolls == [][RollingRolls]_vars

\* a Rolling.next() has returned after a roll to a later contract
C27_Witness ==
    /\ pipe.kind = "Rolling"
    /\ pc = "strategy"
    /\ pipe.out = Returned(<<pipe.curr>>)
    /\ pipe.chain = << >>
    /\ \E t \in DOMAIN pipe.assets : MaturityOf(t) < MaturityOf(pipe.curr)


(* ------------- one stock-like instrument, targets given ---------------- *)

\* targets range over -MaxTarget..MaxTarget
MaxTarget == 6
Targets == (0 - MaxTarget)..MaxTarget

\* Strategy.next: order_target(asset, target) for the asset of the universe
TargetStrategyNext ==
    /\ pc = "strategy"
    /\ \E target \in Targets : broker' = order_target(broker, "A", target)
    /\ pc' = "eop"
    /\ steps' = Append(steps, "strategy")
    /\ UNCHANGED <<data, cfg, sync, rd, pipe>>

NextTarget ==
    \/ PipeInitCall
    \/ PipeAdvance
    \/ RunDone
    \/ RunBop
    \/ PipeNext
    \/ TargetStrategyNext
    \/ RunEop

SpecTarget == InitFlat /\ [][NextTarget]_vars

(* ---- C28 ---- *)

\* the call stored an order
Submits(b, b2) == Len(b2.heap) > Len(b.heap)

\* the order a submitting call stored: Waiting, in the book, at the market
SubmittedIs(b2, ticker, size) ==
    LET id == Len(b2.heap) IN
    /\ b2.heap[id].ticker = ticker
    /\ b2.heap[id].size = size
    /\ b2.heap[id].limit = NoNumber
    /\ b2.heap[id].status = STATUS.WAIT
    /\ id \in Range(b2.orders)

Signals == {0 - 1, 0, 1}
\* the min_size given to sizing ranges over 1..MaxLot
MaxLot == 3
LotSizes == 1..MaxLot

\* Strategy.next: order_target(asset, target = sizing(asset, min_size))
SizingStrategyNext ==
    /\ pc = "strategy"
    /\ \E signal \in Signals, texpo \in TexpoValues, min_size \in LotSizes :
          broker' = order_target(broker, "A",
                                 sizing_lot(broker, "A", signal, texpo, min_size))
    /\ pc' = "eop"
    /\ steps' = Append(steps, "strategy")
    /\ UNCHANGED <<data, cfg, sync, rd, pipe>>

NextSizing ==
    \/ PipeInitCall
    \/ PipeAdvance
    \/ RunDone
    \/ RunBop
    \/ PipeNext
    \/ SizingStrategyNext
    \/ RunEop

SpecSizing == InitFlat /\ [][NextSizing]_vars

(* ---- C29 ---- *)

Sign(x) == IF x > 0 THEN 1 ELSE IF x < 0 THEN 0 - 1 ELSE 0

\* C29: Strategy.sizing returns a multiple of min_size, the raw size
\* rounded toward zero: it has the sign of the raw size or is 0, and
\* |result| <= |raw size| < |result| + min_size.
C29_SizingRoundsToZero ==
    pc = "strategy" =>
        \A signal \in Signals, texpo \in TexpoValues, min_size \in LotSizes :
            LET raw == raw_size(broker, "A", signal, texpo)
                size == sizing_lot(broker, "A", signal, texpo, min_size)
            IN /\ size % min_size = 0
               /\ Sign(size) \in {0, Sign(raw.num)}
               /\ Abs(size) * raw.den <= Abs(raw.num)
               /\ Abs(raw.num) < (Abs(size) + min_size) * raw.den

\* Strategy.next has sized a short position whose raw size was not a whole
\* number of lots
C29_Witness ==
    /\ AfterEop
    /\ \E id \in Range(broker.orders) :
          /\ broker.heap[id].issue_date = data.buffer
          /\ broker.heap[id].size < 0
    /\ \E texpo \in TexpoValues, min_size \in LotSizes :
          LET raw == raw_size(broker, "A", 0 - 1, texpo)
          IN Abs(raw.num) % (raw.den * min_size) # 0


(* ---- C30 ---- *)

\* the instrument of the run may have been added with the commission c
ConfiguredWith(t, c) ==
    \E e \in CommValues, s \in {0, DEFAULT_SLIPPAGE} :
        cfg.assets[t] = IF t = "A"
                        THEN AssetConfig(t, c, NoNumber, s, DEFAULT_CURRENCY, e)
                        ELSE AssetConfig(t, c, MultB, s, "USD", e)

\* the commission of an execution at the rate c, in units of 1/(Den*Den)
ChargeAt(id, c) ==
    LET o == broker.heap[id] IN
    IF cfg.assets[o.ticker].stocklike
    THEN 0 - c * MarketPrice(id) * Abs(o.size)
    ELSE 0 - c * Den * Abs(o.size)

\* C30: an instrument configured with the commission c is charged on every
\* execution c * |size| (future-like) or c * exec_price * |size|
\* (stock-like), for every c >= 0, c = 0 included.
C30_CommissionAsConfigured ==
    AfterBop =>
        \A t \in Tickers : \A id \in ExecutedToday(t) : \A c \in CommValues :
            ConfiguredWith(t, c)
                => broker.tpnl[t] = ChargeAt(id, c) + TradeMTM(id)


(* ------------------ Asset(...) of a future-like ticker ------------------ *)

\* the longest ticker tried, in characters
MaxTickerLen == 5
\* the characters the tickers tried are spelled with
TickerChars == {"W", "Z", "2"}
\* the keys of _MATURITIES: the month letters
MATURITIES == {"F", "G", "H", "J", "K", "M", "N", "Q", "U", "V", "X", "Z"}
Digits == {"0", "1", "2", "3", "4", "5", "6", "7", "8", "9"}

\* the tickers tried: every spelling of up to MaxTickerLen characters, and
\* the ticker of the docstring
Ftickers ==
    (UNION {[1..n -> TickerChars] : n \in 0..MaxTickerLen})
        \cup {<<"W", "I", "N", "Z", "2", "0">>}

\* str.isdigit: a non-empty string of digits
isdigit(s) == s # << >> /\ \A i \in 1..Len(s) : s[i] \in Digits

\* derive_asset.  kind "value": the string returned; "IndexError":
\* fticker[-3] of a string shorter than 3; "ValueError": the two raises
derive_asset(fticker) ==
    IF Len(fticker) < 3 THEN [kind |-> "IndexError", value |-> << >>]
    ELSE LET m == fticker[Len(fticker) - 2]
             y == SubSeq(fticker, Len(fticker) - 1, Len(fticker))
         IN IF m \notin MATURITIES THEN [kind |-> "ValueError", value |-> << >>]
            ELSE IF isdigit(y) THEN [kind |-> "ValueError", value |-> << >>]
            ELSE [kind |-> "value",
                  value |-> SubSeq(fticker, 1, Len(fticker) - 3)]

\* Asset.__init__ on a spelled ticker: Asset.config with the `asset` name it
\* keeps, the ticker itself without a multiplier, derive_asset(ticker) with
\* one
Asset_init(fticker, commission, multiplier, maturity, slippage, currency, envcomm) ==
    LET r == Asset_config(fticker, commission, multiplier, maturity,
                          slippage, currency, envcomm)
    IN IF r.kind # "asset" THEN r
       ELSE IF multiplier = NoNumber
       THEN [kind |-> "asset", asset |-> [asset |-> fticker] @@ r.asset]
       ELSE LET d == derive_asset(fticker) IN
            IF d.kind = "value"
            THEN [kind |-> "asset", asset |-> [asset |-> d.value] @@ r.asset]
            ELSE [kind |-> d.kind, asset |-> None]

\* a Backtest just constructed, and the ticker its caller is about to add
InitFuture ==
    /\ broker = BrokerInit
    /\ data = DataInit
    /\ cfg \in {[assets |-> [t \in {} |-> None], hedges |-> FALSE,
                 fticker |-> f] : f \in Ftickers}
    /\ pc = "setup"
    /\ steps = << >>
    /\ sync = SyncInit
    /\ rd = RdInit
    /\ pipe = PipeInit

\* Backtest.add_asset(ticker, data, multiplier = ..., ...) with a valid
\* slippage and currency: the Asset is stored, or its constructor raises
FutureAddAsset ==
    /\ pc = "setup"
    /\ \E c \in CommValues, mat \in MaturityArgs,
          slip \in {0, DEFAULT_SLIPPAGE}, cur \in CURR :
          LET r == Asset_init(cfg.fticker, c, MultB, mat, slip, cur, MaxComm) IN
          IF r.kind = "asset"
          THEN /\ cfg' = [cfg EXCEPT !.assets = pos_put(@, cfg.fticker, r.asset)]
               /\ pc' = "added"
               /\ steps' = Append(steps, "add_asset")
          ELSE /\ cfg' = cfg
               /\ pc' = "failed"
               /\ steps' = Append(steps, r.kind)
    /\ UNCHANGED <<broker, data, sync, rd, pipe>>

NextFuture == FutureAddAsset

SpecFuture == InitFuture /\ [][NextFuture]_vars

(* ---- C31 ---- *)

\* <asset><maturity month letter><two-digit year>, the asset not empty
WellFormed(fticker) ==
    /\ Len(fticker) > 3
    /\ fticker[Len(fticker) - 2] \in MATURITIES
    /\ isdigit(SubSeq(fticker, Len(fticker) - 1, Len(fticker)))

AssetPart(fticker) == SubSeq(fticker, 1, Len(fticker) - 3)

\* C31: derive_asset of a ticker of the form <asset><month letter><two-digit
\* year> returns the asset part, so that the future-like Asset is
\* constructed and keeps it; it raises only for a ticker without that form.
C31_DeriveAsset ==
    LET f == cfg.fticker
        d == derive_asset(f)
    IN pc # "setup" =>
         /\ WellFormed(f) => /\ d = [kind |-> "value", value |-> AssetPart(f)]
                             /\ pc = "added"
                             /\ cfg.assets[f].asset = AssetPart(f)
         /\ pc = "failed" => ~WellFormed(f)


(* ---- C32 ---- *)

\* the periods completed: the dates the cursor has passed, the current one
\* included once its end_of_period has run
Periods == (DEFAULT_BUFFER + 1)..broker.buffer

\* the rows of the records table for a date and a ticker
RowsOf(d, t) ==
    {i \in 1..Len(broker.records) :
        broker.records[i].date = d /\ broker.records[i].ticker = t}

\* C32: end_of_period appends exactly one ledger record per tradeable
\* instrument per period: after P completed periods with K tradeable
\* instruments the records table has P * K rows, one for each (date,
\* ticker) pair.
C32_OneRecordPerInstrument ==
    AfterEop =>
        /\ Len(broker.records) = Cardinality(Periods) * Cardinality(Added)
        /\ \A d \in Periods, t \in Added : Cardinality(RowsOf(d, t)) = 1


(* ------------- Backtest.run with a drawdown floor configured ------------ *)

\* the DEF_MAX_LOSS of the environment, in percent
MaxLossArgs == {0 - 25}

\* Backtest.run entered, in an environment that sets DEF_MAX_LOSS
InitRun ==
    /\ broker = BrokerInit
    /\ data = DataInit
    /\ cfg \in {[max_loss |-> l] @@ c : c \in Configs, l \in MaxLossArgs}
    /\ pc = "loop"
    /\ steps = << >>
    /\ sync = SyncInit
    /\ rd = RdInit
    /\ pipe = PipeInit

\* beg_of_period returns or raises: its loops run over the copies
\* position_stack and order_stack, each finite
BopReturns ==
    /\ pc = "bop"
    /\ pc' \in {NextStep("bop", cfg.hedges), "failed"}

\* the loop is sequential code: a statement that can run does run, and a
\* call that was made returns.  Strategy.next returns after the orders it
\* chose to submit.
RunFairness ==
    /\ WF_vars(RunAdvance \/ RunDone \/ PipelineNext \/ StrategyReturn \/ RunEop)
    /\ WF_pc(BopReturns)

SpecRun == InitRun /\ [][Next]_vars /\ RunFairness

(* ---- C33 ---- *)

\* the cumulative return is below the configured floor
Breach(b) ==
    100 * (b.equity[b.buffer] - DEFAULT_CASH * Unit)
        < cfg.max_loss * (DEFAULT_CASH * Unit)

\* the run is over: the loop was left, or an exception ended it
RunOver == pc \in {"done", "failed"}

\* C33: Backtest.run terminates.  With no drawdown breach and no fatal error
\* the loop runs once for each calendar date after the warm-up offset (each
\* iteration moves the cursor by one date) and stops with the cursor on the
\* last calendar date, which it never passes; when the cumulative return is
\* below the floor after an end_of_period the loop stops at once and no
\* later date is processed.
C33_RunTerminates ==
    /\ <>RunOver
    /\ [](broker.buffer <= Length - 1 /\ data.buffer = broker.buffer)
    /\ []((pc = "done" /\ ~Breach(broker)) => broker.buffer = Length - 1)
    /\ [][pc = "loop" => \/ pc' = "done"
                         \/ broker'.buffer = broker.buffer + 1]_vars
    /\ [][(pc = "eop" /\ Breach(broker')) => pc' = "done"]_vars
    /\ [][~RunOver]_vars

\* the loop was stopped by the drawdown test before the last date
C33_Witness ==
    /\ pc = "done"
    /\ Breach(broker)
    /\ broker.buffer < Length - 1


(* ---- C34 ---- *)

\* the orders of the book left by Broker.close(t) on the previous date, the
\* last order for t of that date: a market order of size -position.size
FlattenOrders(b, t) ==
    {id \in Range(b.orders) :
        /\ b.heap[id].ticker = t
        /\ b.heap[id].status = STATUS.WAIT
        /\ b.heap[id].limit = NoNumber
        /\ b.heap[id].issue_date = b.buffer - 1
        /\ b.heap[id].size = 0 - HeldSize(b, t)}

FlattenExecutes ==
    pc = "bop" =>
        \A t \in Tickers :
            HeldSize(broker, t) # 0 =>
                \A id \in FlattenOrders(broker, t) :
                    /\ t \notin DOMAIN broker'.positions
                    /\ broker'.heap[id].status = STATUS.EXEC
                    /\ broker'.heap[id].size = 0 - HeldSize(broker, t)
                    /\ id \in Range(broker'.executed)

\* C34: when Broker.close(x) is called in period N on a position of size
\* s # 0 and no further order for x follows in period N, then after
\* beg_of_period of period N+1 the position book has no entry for x and the
\* flatten order is Executed with size -s.
C34_FlattenExecutes == [][FlattenExecutes]_vars


(* ---- C35 ---- *)

\* the order book holds a Waiting order for the instrument
WaitingFor(b, t) ==
    \E i \in 1..Len(b.orders) :
        /\ b.heap[b.orders[i]].ticker = t
        /\ b.heap[b.orders[i]].status = STATUS.WAIT

\* C35: between the operations of the Broker, a Position of the position
\* book whose size is 0 has a Waiting order for its instrument in the order
\* book: a position whose size returns to 0 through an execution is
\* removed from the book.
C35_ZeroSizeHasOrder ==
    \A t \in DOMAIN broker.positions :
        broker.positions[t] = 0 => WaitingFor(broker, t)


(* ---- C36 ---- *)

\* the number of times a list holds an order
Times(list, id) == Cardinality({i \in 1..Len(list) : list[i] = id})

\* the list an order of that status belongs to
PlaceOf(b, status) ==
    CASE status = STATUS.WAIT -> b.orders
      [] status = STATUS.EXEC -> b.executed
      [] OTHER -> b.cancels

\* C36: after any sequence of new_order, close, beg_of_period and
\* end_of_period calls every order ever created is in exactly one place,
\* the one of its status: a Waiting order in the order book, an Executed
\* order in the executed list, a Cancelled order in the cancel list; no
\* order is lost or listed twice.
C36_OrderConservation ==
    \A id \in Ids(broker) :
        /\ Times(broker.orders, id) + Times(broker.executed, id)
              + Times(broker.cancels, id) = 1
        /\ Times(PlaceOf(broker, broker.heap[id].status), id) = 1


(* ---- C37 ---- *)

\* the sum of the sizes of the Executed orders for an instrument among the
\* first n orders created
RECURSIVE ExecutedSize(_, _, _)
ExecutedSize(b, t, n) ==
    IF n = 0 THEN 0
    ELSE ExecutedSize(b, t, n - 1)
           + (IF b.heap[n].ticker = t /\ b.heap[n].status = STATUS.EXEC
              THEN b.heap[n].size ELSE 0)

\* C37: in every state of the Broker, the size held in an instrument (0
\* when the position book has no entry for it) is the sum of the sizes of
\* all the Executed orders for that instrument.
C37_PositionIsExecutedSum ==
    \A t \in Tickers :
        HeldSize(broker, t) = ExecutedSize(broker, t, Len(broker.heap))

\* two executions have added up in one position
C37_Witness ==
    \E t \in Tickers :
        /\ Abs(HeldSize(broker, t)) = 2
        /\ Cardinality({id \in Ids(broker) :
                /\ broker.heap[id].ticker = t
                /\ broker.heap[id].status = STATUS.EXEC}) = 2


(* ---- C38 ---- *)

\* the overnight mark-to-market and carry that reach the cash of the date:
\* the carry, and the mark-to-market of the instruments not stock-like
RECURSIVE OvernightCash(_, _)
OvernightCash(b, S) ==
    IF S = {} THEN 0
    ELSE LET t == CHOOSE y \in S : TRUE IN
         b.cpnl[t] + (IF cfg.assets[t].stocklike THEN 0 ELSE b.opnl[t])
             + OvernightCash(b, S \ {t})

LedgerWriteOnce ==
    /\ \A j \in DOMAIN broker.equity :
          (j # broker.buffer \/ broker'.buffer # broker.buffer)
              => /\ broker'.cash[j] = broker.cash[j]
                 /\ broker'.open[j] = broker.open[j]
                 /\ broker'.equity[j] = broker.equity[j]
    /\ (pc = "bop" /\ broker'.raised = None) =>
          LET i == broker.buffer IN
          /\ broker'.cash[i] = broker.cash[i - 1]
                + OvernightCash(broker', Tickers)
                + CommissionOver(Newly) - StockCashOver(Newly)
          /\ broker'.open[i] = broker.equity[i - 1]
                + OvernightOver(broker', Tickers) + TradeMTMOver(Newly)
          /\ broker'.equity[i] = broker.equity[i - 1]
                + OvernightOver(broker', Tickers) + TradeMTMOver(Newly)

\* C38: the ledger history is write-once.  beg_of_period and end_of_period
\* of period N write only the cash, open_equity and equity entries at the
\* cursor N, and no operation modifies the entries of another period; the
\* roll-forward sets cash[0] = cash[-1], open_equity[0] = equity[-1] and
\* equity[0] = equity[-1] before any mark-to-market is applied, so that the
\* entries of the date are those plus the date's own movements.
C38_LedgerWriteOnce == [][LedgerWriteOnce]_vars

\* beg_of_period has rolled forward a ledger whose previous date ended with
\* an equity away from its open_equity and its cash, and has moved it on
C38_Witness ==
    /\ AfterBop
    /\ broker.equity[broker.buffer - 1] # broker.open[broker.buffer - 1]
    /\ broker.equity[broker.buffer - 1] # broker.cash[broker.buffer - 1]
    /\ broker.open[broker.buffer] # broker.equity[broker.buffer - 1]
    /\ broker.cash[broker.buffer] # broker.cash[broker.buffer - 1]


(* ---- C39 ---- *)

\* the sum of ipnl over a set of instruments
RECURSIVE IpnlOver(_, _)
IpnlOver(b, S) ==
    IF S = {} THEN 0
    ELSE LET t == CHOOSE y \in S : TRUE IN b.ipnl[t] + IpnlOver(b, S \ {t})

IntradayIsIpnl ==
    pc = "eop" =>
        LET i == broker.buffer IN
        /\ broker'.open[i] = broker.open[i]
        /\ broker'.equity[i] - broker'.open[i]
              = IpnlOver(broker', DOMAIN broker'.positions)

\* C39: after end_of_period of every period equity[0] - open_equity[0] is
\* the sum of ipnl over the positions of the book, the intraday
\* mark-to-market, and end_of_period does not change open_equity[0].
C39_IntradayIsIpnl == [][IntradayIsIpnl]_vars

\* end_of_period has marked two positions, one of them opened on the date,
\* to a close away from the open
C39_Witness ==
    /\ AfterEop
    /\ Cardinality(DOMAIN broker.positions) = 2
    /\ \E t \in Tickers : ExecutedToday(t) # {}
    /\ \A t \in DOMAIN broker.positions : broker.ipnl[t] # 0
    /\ broker.equity[broker.buffer] # broker.open[broker.buffer]


(* ---- C40 ---- *)

\* C40: in every state of the Broker every instrument with an order in the
\* order book has an entry in the position book, so that the position
\* lookup of __execute_order does not fail for an order taken from the
\* book.
C40_BookedHasPosition ==
    \A i \in 1..Len(broker.orders) :
        broker.heap[broker.orders[i]].ticker \in DOMAIN broker.positions

\* after an execution, the book holds an order for a held instrument and
\* an order for an instrument whose Position new_order created
C40_Witness ==
    /\ broker.executed # << >>
    /\ \E t \in Tickers : WaitingFor(broker, t) /\ HeldSize(broker, t) # 0
    /\ \E t \in DOMAIN broker.positions :
          WaitingFor(broker, t) /\ broker.positions[t] = 0

====
